---- MODULE Spec2Model ----
(***************************************************************************)
(* State-machine model of the FastAPI example applications                 *)
(* (FastAPI/projects/fastapi_concepts_hands_on).  Every source file is a   *)
(* program of its own; the variable app names the program that is running. *)
(* One action serves one HTTP request from its arrival to its response:    *)
(* the middleware layers, the dependency resolution, the handler body and  *)
(* the translation of a raised failure into a response.                    *)
(***************************************************************************)
EXTENDS Integers, Sequences, FiniteSets, TLC

VARIABLES
    app,             \* the program that is running
    nreq,            \* requests served so far
    MODELS,          \* mini_project_01/02: the model registry
    USERS,           \* 06_3: the user table (tokens_used is mutated in place)
    settings_loads,  \* 06_4: executions of get_settings so far (its print)
    request_count,   \* 07_3: the module's global request_count
    chat_requests,   \* history, 07_3: POST /chat requests for a supported model so far
    uuid_calls,      \* 07_4/08_2/08_4: calls of uuid.uuid4() so far
    generated,       \* ids assigned to requests that carried no X-Request-ID
    deleted,         \* history: ids deleted with 204 and not created again since
    req,             \* the request served last
    resp,            \* its response: status, detail, body, headers
    steps,           \* the functions that executed for it, in order
    log,             \* the log records emitted for it, in order
    state,           \* its request.state when the response left
    threads          \* the threadpool: the plain-def handlers in execution

vars == <<app, nreq, MODELS, USERS, settings_loads, request_count, chat_requests,
          uuid_calls, generated, deleted, req, resp, steps, log, state, threads>>

\* ------------------------------------------------------------------ bounds

MaxRequests == 4
\* 07_3 is followed past its rate limit of 5 requests
MaxRequests073 == 7
\* the requests that are in execution at the same time
MaxWorkers == 2

\* ----------------------------------------------------------------- helpers

\* An optional value (a header, a query parameter): {} absent, {v} present.
None == {}
Some(v) == {v}
Val(o) == CHOOSE v \in o : TRUE
Opt(S) == {None} \cup {Some(v) : v \in S}

\* dict.get(key, default), headers.get(name, default)
Get(o, default) == IF o = None THEN default ELSE Val(o)

NoBody == [none |-> TRUE]
NoHeaders == [x \in {} |-> ""]
NoState == [x \in {} |-> ""]

Response(status, detail, body) ==
    [status |-> status, detail |-> detail, body |-> body, headers |-> NoHeaders]

\* What one request leaves behind: the response, the executed functions, the
\* log records and request.state.
Outcome(r, st, lg, rs) == [resp |-> r, steps |-> st, log |-> lg, state |-> rs]

\* raise HTTPException(status_code, detail) in a dependency or a handler:
\* FastAPI answers {"detail": detail} with that status.
HTTPException(status_code, detail, st) ==
    Outcome(Response(status_code, detail, NoBody), st, <<>>, NoState)

\* A required parameter (Header(...), a query parameter without default, a body
\* field) is missing or invalid: FastAPI raises RequestValidationError and
\* answers 422 without calling the function that declares the parameter.
RequestValidationError(st) ==
    Outcome(Response(422, "validation error", NoBody), st, <<>>, NoState)

\* An exception no handler is registered for: Starlette's ServerErrorMiddleware
\* answers 500 "Internal Server Error".
InternalServerError(st) ==
    Outcome(Response(500, "Internal Server Error", NoBody), st, <<>>, NoState)

Returned(status, body, st) ==
    Outcome(Response(status, "", body), st, <<>>, NoState)

\* A text whose only use is len(text.split()): its label and its word count.
Text(label, n) == [text |-> label, words |-> n]
WordCount(t) == t.words

\* ------------------------------------------------ 06_1_working_with_dependency

valid_keys == {"dev-key-123", "prod-key-456"}

Keys061 == {"dev-key-123", "prod-key-456", "wrong-key"}

\* verify_api_key, then the endpoint that declares Depends(verify_api_key).
\* op is list_models, chat or get_settings; chat has the required query
\* parameter message.
Serve061(op, x_api_key, message) ==
    IF x_api_key = None
    THEN RequestValidationError(<<>>)
    ELSE IF Val(x_api_key) \notin valid_keys
    THEN HTTPException(401, "Invalid API Key", <<"verify_api_key">>)
    ELSE IF op = "chat" /\ message = None
    THEN RequestValidationError(<<"verify_api_key">>)
    ELSE Returned(200, [api_key_used |-> Val(x_api_key)], <<"verify_api_key", op>>)

\* --------------------------------------------- 06_3_working_with_dependency_chain

USERS063 ==
    [k \in {"key-123", "key-456"} |->
        IF k = "key-123"
        THEN [id |-> 1, email |-> "user1@example.com", tokens_used |-> 250, token_limit |-> 1000]
        ELSE [id |-> 2, email |-> "user2@example.com", tokens_used |-> 1500, token_limit |-> 5000]]

Keys063 == {"key-123", "key-456", "wrong-key"}

Prompts063 == {Text("hi", 1), Text("<740 words>", 740), Text("<3490 words>", 3490)}

\* Level 1: verify_api_key
verify_api_key_063(x_api_key, users) == x_api_key \in DOMAIN users

\* check_token_usage with > for >=: a user exactly at the limit passes.
check_token_usage_off_by_one(user) == user.tokens_used <= user.token_limit

\* Level 3: check_token_usage
check_token_usage(user) == user.tokens_used < user.token_limit

\* chat: the tokens this request uses
TokensFor(prompt) == WordCount(prompt) + 10

\* The chain verify_api_key -> get_current_user -> check_token_usage (chat) or
\* verify_api_key -> get_current_user (get_profile), then the handler body.
\* Yields the outcome and the user table after the request.
Serve063(op, x_api_key, prompt, users) ==
    IF x_api_key = None
    THEN [out |-> RequestValidationError(<<>>), users |-> users]
    ELSE IF ~verify_api_key_063(Val(x_api_key), users)
    THEN [out |-> HTTPException(401, "Invalid API Key", <<"verify_api_key">>), users |-> users]
    ELSE
        LET key == Val(x_api_key)
            user == users[key]
            chain == <<"verify_api_key", "get_current_user">>
            profile(u) == [email |-> u.email, tokens_used |-> u.tokens_used,
                           token_limit |-> u.token_limit,
                           remaining_tokens |-> u.token_limit - u.tokens_used]
        IN  IF op = "get_profile"
            THEN [out |-> Returned(200, profile(user), Append(chain, "get_profile")),
                  users |-> users]
            ELSE IF ~check_token_usage(user)
            THEN [out |-> HTTPException(403, "Token limit exceeded",
                                        Append(chain, "check_token_usage")),
                  users |-> users]
            ELSE IF prompt = None
            THEN [out |-> RequestValidationError(Append(chain, "check_token_usage")),
                  users |-> users]
            ELSE
                LET after == [user EXCEPT !.tokens_used = @ + TokensFor(Val(prompt))]
                IN  [out |-> Returned(200, profile(after),
                                      chain \o <<"check_token_usage", "chat">>),
                     users |-> [users EXCEPT ![key] = after]]

\* ------------------------------------------- 06_4_working_with_dependency_caching

\* class Settings(BaseSettings)
SettingsMaxTokens == 8192
openai_api_key == "sk-test-key"
anthropic_api_key == "ant-test-key"

\* chat's default of the query parameter max_tokens
DefaultMaxTokens064 == 1000

\* Depends(get_settings) without use_cache=True: every use executes the function.
use_cache_off == FALSE

\* Depends(get_settings): use_cache is True unless the declaration says otherwise.
use_cache == TRUE

\* A model name as its characters, for str.startswith.
StartsWith(s, prefix) ==
    Len(s) >= Len(prefix) /\ SubSeq(s, 1, Len(prefix)) = prefix

ModelNames064 ==
    { <<"g", "p", "t", "-", "4">>, <<"c", "l", "a", "u", "d", "e">>, <<"g", "p">> }

\* the query parameter max_tokens of chat
MaxTokens064 == {500, 9000}
RequestedTokens064 == {1000, 8192, 8193}

\* The resolver's context within one request: the cached result of
\* get_settings (None before its first execution), the executions of
\* get_settings so far in the process, the functions executed and what each
\* printed, and the value the last Depends(get_settings) yielded.
Context064(loads) ==
    [cache |-> None, loads |-> loads, steps |-> <<>>, log |-> <<>>, value |-> 0]

\* Depends(get_settings): the cached Settings instance of this request, or an
\* execution of get_settings, which prints and returns a new instance (named by
\* its number among the executions).
SolveSettings(ctx) ==
    IF use_cache /\ ctx.cache # None
    THEN [ctx EXCEPT !.value = Val(ctx.cache)]
    ELSE [cache |-> Some(ctx.loads + 1),
          loads |-> ctx.loads + 1,
          steps |-> Append(ctx.steps, "get_settings"),
          log |-> Append(ctx.log, [fn |-> "get_settings", settings |-> ctx.loads + 1]),
          value |-> ctx.loads + 1]

\* A function that took the Settings instance ctx.value has executed.
Called064(ctx, fn) ==
    [ctx EXCEPT !.steps = Append(@, fn),
                !.log = Append(@, [fn |-> fn, settings |-> ctx.value])]

\* get_api_key_for_model: "key", or "ValueError" for an unsupported model
get_api_key_for_model(model_name) ==
    IF StartsWith(model_name, <<"g", "p", "t">>) THEN openai_api_key
    ELSE IF StartsWith(model_name, <<"c", "l", "a", "u", "d", "e">>) THEN anthropic_api_key
    ELSE "ValueError"

\* validate_max_tokens: requested_tokens > settings.max_tokens raises 400
validate_max_tokens(requested_tokens) == requested_tokens <= SettingsMaxTokens

\* POST /chat: the dependencies in their order of declaration (settings,
\* api_key, tokens_validated), each after its own Depends(get_settings), then
\* chat's own query parameters, then the handler body.  A dependency with a
\* missing query parameter is not called and the resolver goes on.
\* Yields the outcome and the number of get_settings executions afterwards.
ServeChat064(model_name, max_tokens, requested_tokens, loads) ==
    LET c1 == SolveSettings(Context064(loads))
        seen == c1.value
        c2 == SolveSettings(c1)
        c3 == IF model_name = None THEN c2 ELSE Called064(c2, "get_api_key_for_model")
        api_key == IF model_name = None THEN "" ELSE get_api_key_for_model(Val(model_name))
        c4 == SolveSettings(c3)
        c5 == IF requested_tokens = None THEN c4 ELSE Called064(c4, "validate_max_tokens")
        c6 == Called064([c5 EXCEPT !.value = seen], "chat")
        done(out, c) == [out |-> [out EXCEPT !.log = c.log], loads |-> c.loads]
    IN  IF api_key = "ValueError"
        THEN done(InternalServerError(c3.steps), c3)
        ELSE IF requested_tokens # None /\ ~validate_max_tokens(Val(requested_tokens))
        THEN done(HTTPException(400, "Requested max tokens exceed the limit of 8192", c5.steps), c5)
        ELSE IF model_name = None \/ requested_tokens = None
        THEN done(RequestValidationError(c5.steps), c5)
        ELSE done(Returned(200,
                           [api_key_used |-> api_key,
                            max_tokens |-> Get(max_tokens, DefaultMaxTokens064),
                            tokens_validated |-> Val(requested_tokens)],
                           c6.steps), c6)

\* ------------------------------------------------------- mini_project_01 / 02

\* class Provider(str, Enum)
Provider == {"openai", "anthropic", "meta", "litellm"}

ModelInfo(id, model_name, provider, max_tokens) ==
    [id |-> id, model_name |-> model_name, provider |-> provider, max_tokens |-> max_tokens]

\* MODELS = {...}: a dict keeps its keys unique and in insertion order; it is
\* modelled as the sequence of its values, each keyed by its id.
MODELS0 ==
    << ModelInfo("gpt-4", "GPT-4", "openai", 8192),
       ModelInfo("claude-opus-4-5", "Claude Opus 4.5", "anthropic", 8192),
       ModelInfo("llama-3.1", "LLaMA 3.1", "meta", 4096),
       ModelInfo("gpt-5", "GPT-5", "litellm", 16384),
       ModelInfo("claude-sonnet-4-5", "Claude Sonnet 4.5", "anthropic", 16384) >>

\* key in d
Has(d, key) == \E i \in DOMAIN d : d[i].id = key
\* d[key]
Item(d, key) == d[CHOOSE i \in DOMAIN d : d[i].id = key]
\* d[key] = value
SetItem(d, key, value) ==
    IF Has(d, key)
    THEN [i \in DOMAIN d |-> IF d[i].id = key THEN value ELSE d[i]]
    ELSE Append(d, value)
\* del d[key] that removes nothing
DelItem_keeps(d, key) == d

\* del d[key]
DelItem(d, key) ==
    LET keep(x) == x.id # key IN SelectSeq(d, keep)

\* models[:limit]
Take(s, n) == IF n >= Len(s) THEN s ELSE SubSeq(s, 1, n)

\* A default model that is another entry of the registry.
DEFAULT_MODEL_other_entry == "claude-opus-4-5"

\* class Settings(BaseModel): DEFAULT_MODEL
DEFAULT_MODEL == "gpt-4"

\* USERS = {...} of mini_project_02: the tier of each API key
USERS_MP02 ==
    [k \in {"key-123", "key-456", "admin-123"} |->
        IF k = "key-123" THEN [id |-> 1, email |-> "user1@example.com", tier |-> "free"]
        ELSE IF k = "key-456" THEN [id |-> 2, email |-> "user2@example.com", tier |-> "pro"]
        ELSE [id |-> 0, email |-> "admin@example.com", tier |-> "admin"]]

\* The max_tokens of a ChatRequest body as sent: the field absent, null or an
\* integer.
MaxTokensAbsent == [tag |-> "absent", v |-> 0]
MaxTokensNull == [tag |-> "null", v |-> 0]
MaxTokensInt(n) == [tag |-> "int", v |-> n]

\* ChatRequest.max_tokens: Optional[int] = Field(default=1000, gt=1, lt=4096)
MaxTokensValid(mt) == mt.tag = "int" => (mt.v > 1 /\ mt.v < 4096)
\* request.max_tokens after validation: None or an int
MaxTokensParsed(mt) ==
    IF mt.tag = "absent" THEN Some(1000) ELSE IF mt.tag = "null" THEN None ELSE Some(mt.v)

\* Message.role of mini_project_02: pattern="^(user|assistant|system)$"
RolePattern == {"user", "assistant", "system"}

\* ModelInfo body validation: provider must be a member of Provider.
ModelInfoValid(m) == m.provider \in Provider

\* sum(len(msg.content.split()) for msg in request.messages)
RECURSIVE InputTokens(_)
InputTokens(messages) ==
    IF messages = <<>> THEN 0
    ELSE WordCount(Head(messages).content) + InputTokens(Tail(messages))

\* The body of create_chat_completion after the model is validated
\* (mini_project_01 lines 102-110, mini_project_02 lines 182-190):
\* request.messages[-1] raises IndexError on an empty list.
ChatCompletionBody(model_id, messages, st) ==
    IF messages = <<>>
    THEN InternalServerError(st)
    ELSE Returned(201,
                  [id |-> "response-123", model |-> model_id,
                   content |-> "This is a generated response based on your input: '"
                               \o messages[Len(messages)].content.text \o "'",
                   tokens_used |-> [input |-> InputTokens(messages), output |-> 10]],
                  st)

\* ---- mini_project_01

get_model_01(model_id, models) ==
    IF ~Has(models, model_id)
    THEN HTTPException(404, "Model " \o model_id \o " not found", <<"get_model">>)
    ELSE Returned(200, Item(models, model_id), <<"get_model">>)

list_models_filter(provider, limit, models) ==
    LET match(m) == m.provider = Val(provider)
        found == IF provider # None THEN SelectSeq(models, match) ELSE models
    IN  Take(found, Get(limit, 10))

\* provider: Optional[Provider] = Query(None); limit: int = Query(10, ge=1, le=100)
ListQueryValid(provider, limit) ==
    /\ provider # None => Val(provider) \in Provider
    /\ limit # None => (Val(limit) >= 1 /\ Val(limit) <= 100)

list_models_01(provider, limit, models) ==
    IF ~ListQueryValid(provider, limit)
    THEN RequestValidationError(<<>>)
    ELSE Returned(200, [models |-> list_models_filter(provider, limit, models)],
                  <<"list_models">>)

\* ChatRequest of mini_project_01: model and messages are required.
create_chat_completion_01(body, models) ==
    IF body.model = None \/ ~MaxTokensValid(body.max_tokens)
    THEN RequestValidationError(<<>>)
    ELSE IF ~Has(models, Val(body.model))
    THEN HTTPException(404, "Model " \o Val(body.model) \o " not found",
                       <<"create_chat_completion">>)
    ELSE ChatCompletionBody(Val(body.model), body.messages, <<"create_chat_completion">>)

\* Yields the outcome and the registry after the request.
create_model_01(model_info, models) ==
    IF ~ModelInfoValid(model_info)
    THEN [out |-> RequestValidationError(<<>>), models |-> models]
    ELSE IF Has(models, model_info.id)
    THEN [out |-> HTTPException(400, "Model with ID " \o model_info.id \o " already exists",
                                <<"create_model">>),
          models |-> models]
    ELSE [out |-> Returned(201, model_info, <<"create_model">>),
          models |-> SetItem(models, model_info.id, model_info)]

delete_model_01(model_id, models) ==
    IF ~Has(models, model_id)
    THEN [out |-> HTTPException(404, "Model " \o model_id \o " not found", <<"delete_model">>),
          models |-> models]
    ELSE [out |-> Returned(204, NoBody, <<"delete_model">>),
          models |-> DelItem(models, model_id)]

\* ---- mini_project_02

\* authenticate_user(x_api_key: str = Header(...)): is the key one of USERS
authenticate_user(x_api_key) == x_api_key \in DOMAIN USERS_MP02

\* validate_admin: user.tier != "admin" raises 403
validate_admin(user) == user.tier = "admin"

\* validate_model(model_id)
validate_model(model_id, models) == Has(models, model_id)

\* The tier check of create_chat_completion: user.tier == "free" and
\* request.max_tokens > 1000.  Comparing None with an int raises TypeError.
FreeTierLimit == 1000
TierCheck(user, max_tokens) ==
    IF user.tier # "free" THEN "pass"
    ELSE IF max_tokens = None THEN "TypeError"
    ELSE IF Val(max_tokens) > FreeTierLimit THEN "forbidden"
    ELSE "pass"

InvalidKey(st) == HTTPException(401, "Invalid API Key", st)

\* list_models: Depends(authenticate_user), then the query parameters.
list_models_02(x_api_key, provider, limit, models) ==
    IF x_api_key # None /\ ~authenticate_user(Val(x_api_key))
    THEN InvalidKey(<<"authenticate_user">>)
    ELSE IF x_api_key = None
    THEN RequestValidationError(<<>>)
    ELSE IF ~ListQueryValid(provider, limit)
    THEN RequestValidationError(<<"authenticate_user">>)
    ELSE Returned(200, [models |-> list_models_filter(provider, limit, models)],
                  <<"authenticate_user", "list_models">>)

\* get_model whose 404 carries the detail of delete_model.
get_model_02_wrong_detail(x_api_key, model_id, models) ==
    IF x_api_key # None /\ ~authenticate_user(Val(x_api_key))
    THEN InvalidKey(<<"authenticate_user">>)
    ELSE IF ~validate_model(model_id, models)
    THEN HTTPException(404, "Model with ID " \o model_id \o " does not exist",
                       <<"validate_model">>)
    ELSE IF x_api_key = None
    THEN RequestValidationError(<<"validate_model">>)
    ELSE Returned(200, Item(models, model_id),
                  <<"authenticate_user", "validate_model", "get_model">>)

\* get_model: Depends(authenticate_user), then Depends(validate_model).  A
\* missing header is a validation error of authenticate_user, which is then not
\* called; the resolver goes on to validate_model, whose 404 is raised first.
get_model_02(x_api_key, model_id, models) ==
    IF x_api_key # None /\ ~authenticate_user(Val(x_api_key))
    THEN InvalidKey(<<"authenticate_user">>)
    ELSE
        LET auth == IF x_api_key = None THEN <<>> ELSE <<"authenticate_user">>
        IN  IF ~validate_model(model_id, models)
            THEN HTTPException(404, "Model " \o model_id \o " not found",
                               Append(auth, "validate_model"))
            ELSE IF x_api_key = None
            THEN RequestValidationError(Append(auth, "validate_model"))
            ELSE Returned(200, Item(models, model_id),
                          auth \o <<"validate_model", "get_model">>)

\* ChatRequest of mini_project_02: model is optional, the role has a pattern.
ChatRequestValid02(body) ==
    /\ MaxTokensValid(body.max_tokens)
    /\ \A i \in DOMAIN body.messages : body.messages[i].role \in RolePattern

\* create_chat_completion with the tier check before validate_model.
create_chat_completion_02_tier_first(x_api_key, body, models) ==
    IF x_api_key # None /\ ~authenticate_user(Val(x_api_key))
    THEN InvalidKey(<<"authenticate_user">>)
    ELSE IF x_api_key = None
    THEN RequestValidationError(<<"get_settings">>)
    ELSE IF ~ChatRequestValid02(body)
    THEN RequestValidationError(<<"authenticate_user", "get_settings">>)
    ELSE
        LET user == USERS_MP02[Val(x_api_key)]
            model_id == Get(body.model, DEFAULT_MODEL)
            st == <<"authenticate_user", "get_settings", "create_chat_completion">>
            tier == TierCheck(user, MaxTokensParsed(body.max_tokens))
        IN  IF tier = "TypeError"
            THEN InternalServerError(st)
            ELSE IF tier = "forbidden"
            THEN HTTPException(403, "Free tier users can only request up to 1000 max tokens", st)
            ELSE IF ~validate_model(model_id, models)
            THEN HTTPException(404, "Model " \o model_id \o " not found", st)
            ELSE ChatCompletionBody(model_id, body.messages, st)

\* create_chat_completion: Depends(authenticate_user), Depends(get_settings),
\* the body; then validate_model(request.model or settings.DEFAULT_MODEL), the
\* tier check and the synthetic completion.
create_chat_completion_02(x_api_key, body, models) ==
    IF x_api_key # None /\ ~authenticate_user(Val(x_api_key))
    THEN InvalidKey(<<"authenticate_user">>)
    ELSE IF x_api_key = None
    THEN RequestValidationError(<<"get_settings">>)
    ELSE IF ~ChatRequestValid02(body)
    THEN RequestValidationError(<<"authenticate_user", "get_settings">>)
    ELSE
        LET user == USERS_MP02[Val(x_api_key)]
            model_id == Get(body.model, DEFAULT_MODEL)
            st == <<"authenticate_user", "get_settings", "create_chat_completion">>
            tier == TierCheck(user, MaxTokensParsed(body.max_tokens))
        IN  IF ~validate_model(model_id, models)
            THEN HTTPException(404, "Model " \o model_id \o " not found", st)
            ELSE IF tier = "TypeError"
            THEN InternalServerError(st)
            ELSE IF tier = "forbidden"
            THEN HTTPException(403, "Free tier users can only request up to 1000 max tokens", st)
            ELSE ChatCompletionBody(model_id, body.messages, st)

\* Depends(validate_admin), which depends on authenticate_user: the outcome
\* that stops the request before the handler, or None.
AdminGate(x_api_key) ==
    IF x_api_key = None
    THEN Some(RequestValidationError(<<>>))
    ELSE IF ~authenticate_user(Val(x_api_key))
    THEN Some(InvalidKey(<<"authenticate_user">>))
    ELSE IF ~validate_admin(USERS_MP02[Val(x_api_key)])
    THEN Some(HTTPException(403, "Admin privileges required",
                            <<"authenticate_user", "validate_admin">>))
    ELSE None

AdminSteps == <<"authenticate_user", "validate_admin">>

\* create_model without the duplicate check: MODELS[model.id] = model overwrites.
create_model_02_overwrite(x_api_key, model, models) ==
    IF AdminGate(x_api_key) # None
    THEN [out |-> Val(AdminGate(x_api_key)), models |-> models]
    ELSE IF ~ModelInfoValid(model)
    THEN [out |-> RequestValidationError(AdminSteps), models |-> models]
    ELSE [out |-> Returned(201, model, Append(AdminSteps, "create_model")),
          models |-> SetItem(models, model.id, model)]

\* Yields the outcome and the registry after the request.
create_model_02(x_api_key, model, models) ==
    IF AdminGate(x_api_key) # None
    THEN [out |-> Val(AdminGate(x_api_key)), models |-> models]
    ELSE IF ~ModelInfoValid(model)
    THEN [out |-> RequestValidationError(AdminSteps), models |-> models]
    ELSE IF Has(models, model.id)
    THEN [out |-> HTTPException(400, "Model with ID " \o model.id \o " already exists",
                                Append(AdminSteps, "create_model")),
          models |-> models]
    ELSE [out |-> Returned(201, model, Append(AdminSteps, "create_model")),
          models |-> SetItem(models, model.id, model)]

delete_model_02(x_api_key, model_id, models) ==
    IF AdminGate(x_api_key) # None
    THEN [out |-> Val(AdminGate(x_api_key)), models |-> models]
    ELSE IF ~Has(models, model_id)
    THEN [out |-> HTTPException(404, "Model with ID " \o model_id \o " does not exist",
                                Append(AdminSteps, "delete_model")),
          models |-> models]
    ELSE [out |-> Returned(204, NoBody, Append(AdminSteps, "delete_model")),
          models |-> DelItem(models, model_id)]

\* ---- 05_working_with_response_status_codes

\* models = {"gpt-4": {...}} of get_model_or_404
models_05 == << [id |-> "gpt-4", name |-> "GPT-4", status |-> "available"] >>

get_model_or_404(model_id) ==
    IF ~Has(models_05, model_id)
    THEN HTTPException(404, "Model " \o model_id \o " not found", <<"get_model_or_404">>)
    ELSE Returned(200, Item(models_05, model_id), <<"get_model_or_404">>)

\* ---- the requests of the registry programs

PathIds == {"gpt-4", "gpt-99"}
KeysMP02 == {"key-123", "key-456", "admin-123", "wrong-key"}

NewModels ==
    { ModelInfo(id, "Custom", p, 2048) : id \in PathIds, p \in {"openai", "bogus"} }

Messages ==
    { <<>>,
      << [role |-> "user", content |-> Text("hello there", 2)] >>,
      << [role |-> "system", content |-> Text("be brief", 2)],
         [role |-> "tool", content |-> Text("x", 1)] >> }

MaxTokensSent ==
    {MaxTokensAbsent, MaxTokensNull} \cup {MaxTokensInt(n) : n \in {1, 1000, 1001, 4096}}

ChatBodies ==
    { [model |-> m, messages |-> ms, max_tokens |-> mt] :
        m \in Opt(PathIds), ms \in Messages, mt \in MaxTokensSent }

\* ------------------------------------------ request ids and the middleware layers

\* str(uuid.uuid4()): the id of the (calls + 1)-th call in the process
uuid4(calls) == "uuid-" \o ToString(calls + 1)

\* request.state.<name> = v, getattr(request.state, name, default)
SetAttr(st, name, v) == (name :> v) @@ st
GetAttr(st, name, default) == IF name \in DOMAIN st THEN st[name] ELSE default

\* The request in flight through the layers: the request, request.state (shared
\* by every layer through the ASGI scope), the functions executed and the log
\* records so far, the uuid4 calls of the process, the clock (ms), the response
\* (status 0: none yet) and the exception being raised ("": none).
\* An exception: its class and str(exc)
Exc(type, message) == [type |-> type, message |-> message]
NoException == Exc("", "")

\* The base class of an exception class (07_3 spells its provider error
\* ProvderError); Exception is the root.
Base(cls) ==
    IF cls \in {"TokenBudgetExceededError", "RateLimitExceededError", "ProviderError",
                "ProvderError", "ModelNotFoundError"}
    THEN "GenAIException"
    ELSE IF cls = "Exception" THEN "" ELSE "Exception"

RECURSIVE lookup_handler(_, _)
\* ExceptionMiddleware: the class a handler is registered for that comes first
\* in the method resolution order of the exception's class ("": none).
lookup_handler(handlers, cls) ==
    IF cls = "" THEN ""
    ELSE IF cls \in handlers THEN cls
    ELSE lookup_handler(handlers, Base(cls))

Call(r, calls) ==
    [req |-> r, state |-> NoState, steps |-> <<>>, log |-> <<>>, uuid_calls |-> calls,
     clock |-> 0, resp |-> Response(0, "", NoBody), exc |-> NoException]

Step(c, name) == [c EXCEPT !.steps = Append(@, name)]
Log(c, msg, id) == [c EXCEPT !.log = Append(@, [msg |-> msg, id |-> id])]
Respond(c, status, detail, body) == [c EXCEPT !.resp = Response(status, detail, body)]
\* raise exc: the exception travels up the layers until a handler takes it
Raise(c, exc) == Step([c EXCEPT !.exc = exc], "raise " \o exc.type)
Handled(c) == [c EXCEPT !.exc = NoException]
\* response.headers[name] = v
SetHeader(c, name, v) == [c EXCEPT !.resp.headers = (name :> v) @@ @]
\* await asyncio.sleep(...) and the handler's own time
Elapse(c, ms) == [c EXCEPT !.clock = @ + ms]

Finished(c) == Outcome(c.resp, c.steps, c.log, c.state)

\* The dispatch that takes its id from uuid4 whatever the client sent.
AssignRequestId_always_fresh(c) ==
    Step([c EXCEPT !.uuid_calls = @ + 1,
                   !.state = SetAttr(@, "request_id", uuid4(c.uuid_calls))],
         "RequestIDMiddleware:request")

\* RequestIDMiddleware.dispatch up to call_next (08_2 lines 80-83, 08_4 lines
\* 103-104, 07_4 lines 71-74):
\*   request_id = request.headers.get("X-Request-ID", str(uuid.uuid4()))
\*   request.state.request_id = request_id
\* The default is an argument, so uuid4 is called for every request.
AssignRequestId(c) ==
    Step([c EXCEPT !.uuid_calls = @ + 1,
                   !.state = SetAttr(@, "request_id",
                                     Get(c.req.x_request_id, uuid4(c.uuid_calls)))],
         "RequestIDMiddleware:request")

\* RequestIDMiddleware.dispatch after call_next returned a response.
EchoRequestId(c) ==
    Step(SetHeader(c, "X-Request-ID", c.state.request_id), "RequestIDMiddleware:response")

ClientIds == {"abc-123", ""}

\* ---- 08_2_working_with_requestId_middleware

MODELS082 == {"claude-3", "gpt-4"}
conversations == {"conv_1", "conv_2"}

Endpoint082(c) ==
    LET r == c.req
        rid == c.state.request_id
    IN  IF r.op = "health"
        THEN Respond(Step(c, "health"), 200, "", [status |-> "healthy", request_id |-> rid])
        ELSE IF r.op = "get_conversation"
        THEN LET c1 == Log(Step(c, "get_conversation"), "fetching_conversation", rid)
             IN  IF r.conversation_id \notin conversations
                 THEN Respond(Log(c1, "conversation_not_found", rid), 404,
                              "conversation_not_found",
                              [conversation_id |-> r.conversation_id, request_id |-> rid])
                 ELSE Respond(c1, 200, "", [id |-> r.conversation_id])
        ELSE IF r.messages = None
        THEN Respond(c, 422, "validation error", NoBody)
        ELSE LET c1 == Log(Step(c, "chat"), "chat_request", rid)
                 model == Get(r.model, "claude-3")
             IN  IF model \notin MODELS082
                 THEN Respond(c1, 404, "Model '" \o model \o "' not found", NoBody)
                 ELSE Respond(Log(c1, "llm_call", rid), 200, "",
                              [model |-> model, request_id |-> rid])

RequestIDMiddleware082(c) ==
    LET c1 == AssignRequestId(c)
        c2 == Log(c1, "request_start", c1.state.request_id)
        c3 == EchoRequestId(Endpoint082(c2))
    IN  Log(c3, "request_end", c1.state.request_id)

Requests082 ==
    { [op |-> "health", x_request_id |-> x] : x \in Opt(ClientIds) }
    \cup { [op |-> "get_conversation", x_request_id |-> x, conversation_id |-> cv] :
             x \in Opt(ClientIds), cv \in {"conv_1", "conv_9"} }
    \cup { [op |-> "chat", x_request_id |-> x, model |-> m, messages |-> ms] :
             x \in Opt(ClientIds), m \in Opt({"gpt-4", "gpt-99"}), ms \in Opt({1}) }

\* ---- 08_4_working_with_complete_middleware_stack

\* The layers registered in the order in which they are meant to execute.
middleware_stack_in_execution_order ==
    <<"CORSMiddleware", "RequestIDMiddleware", "TimingMiddleware", "LoggingMiddleware">>

\* app.add_middleware calls in source order; the last one added is outermost.
middleware_stack ==
    <<"LoggingMiddleware", "TimingMiddleware", "RequestIDMiddleware", "CORSMiddleware">>

\* TimingMiddleware(slow_threshold=3.0), in milliseconds
slow_threshold == 3000

allow_origins == {"http://localhost:3000", "http://localhost:5173"}
allow_methods == {"GET", "POST", "PUT", "DELETE", "OPTIONS"}
SUPPORTED_MODELS == {"claude-3", "gpt-4"}

\* The router and the endpoints; r.work is the time the handler itself takes.
Endpoint084(c) ==
    LET r == c.req
        rid == c.state.request_id
    IN  IF r.op = "options"
        THEN Respond(Elapse(c, r.work), 405, "Method Not Allowed", NoBody)
        ELSE IF r.op = "health"
        THEN Respond(Elapse(Step(c, "health"), r.work), 200, "", [status |-> "healthy"])
        ELSE IF r.op = "list_models"
        THEN Respond(Elapse(Step(c, "list_models"), r.work), 200, "",
                     [models |-> SUPPORTED_MODELS])
        ELSE IF r.op = "chat_slow"
        THEN Respond(Elapse(Step(c, "chat_slow"), 5000 + r.work), 200, "",
                     [simulated_latency |-> "5s", request_id |-> rid])
        ELSE IF r.messages = None
        THEN Respond(Elapse(c, r.work), 422, "validation error", NoBody)
        ELSE LET model == Get(r.model, "claude-3")
                 c1 == Step(c, "chat")
             IN  IF model \notin SUPPORTED_MODELS
                 THEN Respond(Elapse(c1, r.work), 404, "Model '" \o model \o "' not found",
                              NoBody)
                 ELSE Respond(Log(Elapse(c1, 2000 + r.work), "LLM CALL", rid), 200, "",
                              [model |-> model, tokens_used |-> 42, request_id |-> rid])

\* CORSMiddleware answers a preflight request itself.
IsPreflight(r) ==
    r.op = "options" /\ r.origin # None /\ r.access_control_request_method # None

preflight_response(c) ==
    LET r == c.req
        okOrigin == Val(r.origin) \in allow_origins
        okMethod == Val(r.access_control_request_method) \in allow_methods
        c1 == Step(c, "CORSMiddleware:preflight")
        c2 == IF okOrigin
              THEN SetHeader(Respond(c1, 0, "", NoBody), "Access-Control-Allow-Origin",
                             Val(r.origin))
              ELSE Respond(c1, 0, "", NoBody)
    IN  IF okOrigin /\ okMethod
        THEN [c2 EXCEPT !.resp.status = 200, !.resp.detail = "OK"]
        ELSE [c2 EXCEPT !.resp.status = 400,
                        !.resp.detail = "Disallowed CORS " \o
                            (IF okOrigin THEN "method"
                             ELSE IF okMethod THEN "origin" ELSE "origin, method")]

\* CORSMiddleware.simple_response: the headers added to the inner response.
simple_response(c, d) ==
    LET d1 == SetHeader(d, "Access-Control-Allow-Credentials", "true")
    IN  IF Val(c.req.origin) \in allow_origins
        THEN SetHeader(d1, "Access-Control-Allow-Origin", Val(c.req.origin))
        ELSE d1

RECURSIVE Dispatch084(_, _)
\* The layer registered k-th handles the request; layer 0 is the router.
Dispatch084(k, c) ==
    IF k = 0 THEN Endpoint084(c)
    ELSE IF middleware_stack[k] = "CORSMiddleware"
    THEN IF c.req.origin = None
         THEN Step(Dispatch084(k - 1, Step(c, "CORSMiddleware:request")),
                   "CORSMiddleware:response")
         ELSE IF IsPreflight(c.req)
         THEN preflight_response(c)
         ELSE Step(simple_response(c, Dispatch084(k - 1, Step(c, "CORSMiddleware:request"))),
                   "CORSMiddleware:response")
    ELSE IF middleware_stack[k] = "RequestIDMiddleware"
    THEN EchoRequestId(Dispatch084(k - 1, AssignRequestId(c)))
    ELSE IF middleware_stack[k] = "TimingMiddleware"
    THEN LET d == Dispatch084(k - 1, Step(c, "TimingMiddleware:request"))
             duration == d.clock - c.clock
             d1 == SetHeader([d EXCEPT !.state = SetAttr(@, "process_time", duration)],
                             "X-Process-Time", ToString(duration) \o "ms")
             d2 == IF duration > slow_threshold
                   THEN Log(d1, "SLOW REQUEST", GetAttr(d1.state, "request_id", "unknown"))
                   ELSE d1
         IN  Step(d2, "TimingMiddleware:response")
    ELSE LET request_id == GetAttr(c.state, "request_id", "unknown")
             c1 == Log(Step(c, "LoggingMiddleware:request"), "REQUEST", request_id)
             d == Dispatch084(k - 1, c1)
             duration == GetAttr(d.state, "process_time", 0)
             d1 == [d EXCEPT !.log = Append(@, [msg |-> "RESPONSE", id |-> request_id,
                                                 status |-> d.resp.status,
                                                 duration |-> duration])]
         IN  Step(d1, "LoggingMiddleware:response")

App084(c) == Dispatch084(Len(middleware_stack), c)

Origins084 == Opt({"http://localhost:3000", "http://evil.example"})
HandlerTimes == {1, 2}

Requests084 ==
    { [op |-> o, x_request_id |-> x, origin |-> og, work |-> w] :
        o \in {"health", "list_models", "chat_slow"}, x \in Opt(ClientIds),
        og \in Origins084, w \in HandlerTimes }
    \cup { [op |-> "chat", x_request_id |-> x, origin |-> og, work |-> w,
            model |-> m, messages |-> ms] :
             x \in Opt(ClientIds), og \in Origins084, w \in HandlerTimes,
             m \in Opt({"gpt-99"}), ms \in Opt({1}) }
    \cup { [op |-> "options", x_request_id |-> x, origin |-> og, work |-> 1,
            access_control_request_method |-> am] :
             x \in Opt({"abc-123"}), og \in Origins084, am \in Opt({"POST", "PATCH"}) }

\* ---- 07_4_working_with_error_handling_global_exception_with_request_context

\* A message, by what chat reads of it: len(message), and whether
\* message.lower() contains "provider_error" and "crash".
Message074(length, provider_error, crash) ==
    [len |-> length, provider_error |-> provider_error, crash |-> crash]

Messages074 ==
    { Message074(5, FALSE, FALSE), Message074(200, FALSE, FALSE),
      Message074(201, TRUE, TRUE), Message074(20, TRUE, TRUE),
      Message074(11, FALSE, TRUE) }

Endpoint074(c) ==
    LET r == c.req
        rid == c.state.request_id
    IN  IF r.op = "health"
        THEN Respond(Step(c, "health"), 200, "", [status |-> "healthy", request_id |-> rid])
        ELSE IF r.message = None
        THEN Respond(c, 422, "validation error", NoBody)
        ELSE LET m == Val(r.message)
                 c1 == Step(c, "chat")
             IN  IF m.len > 200 THEN Raise(c1, Exc("TokenBudgetExceededError", "Token budget exceeded: 9500/10000"))
                 ELSE IF m.provider_error THEN Raise(c1, Exc("ProviderError", "Anthropic error: Rate limited"))
                 ELSE IF m.crash THEN Raise(c1, Exc("Exception", "Intentional error for testing"))
                 ELSE IF "raises" \in DOMAIN r THEN Raise(c1, r.raises)
                 ELSE Respond(Log(c1, "chat_request_processed", rid), 200, "",
                              [response |-> "Chat response", request_id |-> rid])

handle_token_budget(c) ==
    LET request_id == c.state.request_id
        c1 == Log(Step(Handled(c), "handle_token_budget"), "token_budget_exceeded", request_id)
    IN  SetHeader(Respond(c1, 429, "",
                          [error |-> "token_budget_exceeded",
                           message |-> "You've used your monthly token budget",
                           request_id |-> request_id]),
                  "Retry-After", "3600")

handle_provider(c) ==
    LET request_id == c.state.request_id
        c1 == Log(Step(Handled(c), "handle_provider"), "anthropic_error", request_id)
    IN  SetHeader(Respond(c1, 503, "",
                          [error |-> "service_unavailable",
                           message |-> "External service is temporarily unavailable",
                           request_id |-> request_id]),
                  "Retry-After", "60")

\* The handler that puts str(exc) into the response.
handle_unexpected_leaks(c) ==
    LET request_id == c.state.request_id
        c1 == Step(Handled(c), "handle_unexpected")
        c2 == [c1 EXCEPT !.log = Append(@, [msg |-> "unhandled_exception", id |-> request_id,
                                             exception_type |-> c.exc.type,
                                             exception_message |-> c.exc.message])]
    IN  Respond(c2, 500, "",
                [error |-> "internal_error", message |-> c.exc.message,
                 request_id |-> request_id,
                 support |-> "Include the request_id above when contacting support"])

handle_unexpected(c) ==
    LET request_id == c.state.request_id
        c1 == Step(Handled(c), "handle_unexpected")
        c2 == [c1 EXCEPT !.log = Append(@, [msg |-> "unhandled_exception", id |-> request_id,
                                             exception_type |-> c.exc.type,
                                             exception_message |-> c.exc.message])]
    IN  Respond(c2, 500, "",
                [error |-> "internal_error", message |-> "An unexpected error occurred",
                 request_id |-> request_id,
                 support |-> "Include the request_id above when contacting support"])

\* ExceptionMiddleware, around the router: the handlers registered for the
\* exception classes other than Exception run here.
exception_handlers074 == {"TokenBudgetExceededError", "ProviderError"}

\* No handler takes the exception here: all of them reach the catch-all.
ExceptionMiddleware074_no_handlers(c) == Endpoint074(c)

ExceptionMiddleware074(c) ==
    LET d == Endpoint074(c)
        h == lookup_handler(exception_handlers074, d.exc.type)
    IN  IF h = "TokenBudgetExceededError" THEN handle_token_budget(d)
        ELSE IF h = "ProviderError" THEN handle_provider(d)
        ELSE d

\* RequestIDMiddleware.dispatch: an exception raised below leaves it at
\* "await call_next(request)".
RequestIDMiddleware074(c) ==
    LET c1 == AssignRequestId(c)
        c2 == [c1 EXCEPT !.state = SetAttr(SetAttr(@, "user_id", "user_123"),
                                           "start_time", c.clock)]
        c3 == Log(c2, "incoming_request", c2.state.request_id)
        d == ExceptionMiddleware074(c3)
    IN  IF d.exc # NoException THEN d
        ELSE Log(EchoRequestId(d), "response_sent", c2.state.request_id)

\* ServerErrorMiddleware, the outermost layer: the handler registered for
\* Exception runs here.
ServerErrorMiddleware074(c) ==
    LET d == RequestIDMiddleware074(c)
    IN  IF d.exc # NoException THEN handle_unexpected(d) ELSE d

\* handle_unexpected is registered for every Exception, and chat raises one.
\* These are other exceptions of no registered kind, as a failure inside the
\* body of chat would raise them.
UnexpectedExceptions ==
    { Exc("Exception", "Intentional error for testing"),
      Exc("KeyError", "'user_123'"),
      Exc("ConnectionError", "connection to 10.0.0.5:5432 refused") }

\* A POST /chat during which the body of chat fails with e.
Failing074(x, e) ==
    [op |-> "chat", x_request_id |-> x, message |-> Some(Message074(5, FALSE, FALSE)),
     raises |-> e]

Requests074 ==
    { [op |-> "health", x_request_id |-> x] : x \in Opt(ClientIds) }
    \cup { [op |-> "chat", x_request_id |-> x, message |-> m] :
             x \in Opt(ClientIds), m \in Opt(Messages074) }

\* ---- 07_2 / 07_3: the custom exception classes

\* TokenBudgetExceededError.__init__ (the same class in 07_2 and 07_3)
TokenBudgetExceededError(user_id, tokens_used, tokens_limit, tokens_needed) ==
    [type |-> "TokenBudgetExceededError",
     message |-> "Token budget exceeded. Used " \o ToString(tokens_used) \o "/"
                 \o ToString(tokens_limit) \o " tokens this month. "
                 \o (IF tokens_needed # 0
                     THEN "Current request needs " \o ToString(tokens_needed)
                          \o ", but only " \o ToString(tokens_limit - tokens_used)
                          \o " remaining."
                     ELSE ""),
     user_id |-> user_id, tokens_used |-> tokens_used, tokens_limit |-> tokens_limit,
     tokens_needed |-> tokens_needed]

RateLimitExceededError(user_id, requests_made, requests_limit) ==
    [type |-> "RateLimitExceededError",
     message |-> "Rate limit exceeded. Made " \o ToString(requests_made) \o "/"
                 \o ToString(requests_limit) \o " requests in the current time window.",
     user_id |-> user_id, requests_made |-> requests_made,
     requests_limit |-> requests_limit]

ProvderError(provider_name, error_code, error_message) ==
    [type |-> "ProvderError",
     message |-> "Error with provider " \o provider_name \o "." \o " Error code: "
                 \o error_code \o "." \o " Message: " \o error_message,
     provider_name |-> provider_name, error_code |-> error_code,
     error_message |-> error_message]

ModelNotFoundError(model_name, available_models) ==
    [type |-> "ModelNotFoundError",
     message |-> "Model '" \o model_name \o "' not found.",
     model_name |-> model_name, available_models |-> available_models]

\* ---- 07_2_working_with_error_handling_custom_exception_class_intro

\* A message is modelled by len(message).
estimate_tokens(message) == message \div 4

\* The check that also refuses a request needing exactly the remaining budget.
validate_token_budget_refuses_exact(user_id, tokens_used, tokens_limit, request_message) ==
    LET tokens_needed == estimate_tokens(request_message)
        tokens_remaining == tokens_limit - tokens_used
    IN  IF tokens_needed >= tokens_remaining
        THEN TokenBudgetExceededError(user_id, tokens_used, tokens_limit, tokens_needed)
        ELSE NoException

\* The exception validate_token_budget raises; NoException when it returns.
validate_token_budget(user_id, tokens_used, tokens_limit, request_message) ==
    LET tokens_needed == estimate_tokens(request_message)
        tokens_remaining == tokens_limit - tokens_used
    IN  IF tokens_needed > tokens_remaining
        THEN TokenBudgetExceededError(user_id, tokens_used, tokens_limit, tokens_needed)
        ELSE NoException

\* (tokens_used, tokens_limit) and len(request_message): the three examples of
\* the file ("Hello" * 50, * 500, * 25) and the cases around the boundary.
Budgets072 == {<<5000, 10000>>, <<9500, 10000>>, <<9900, 10000>>, <<10000, 10000>>,
               <<10050, 10000>>}
MessageLengths072 == {0, 3, 4, 125, 250, 399, 400, 403, 404, 2500}
Users072 == {"alice", "bob", "charlie"}

\* ---- 07_3_working_with_error_handling_global_exception_handlers

SUPPORTED_MODELS073 == {"claude-4", "gpt-4", "claude-opus-4-6"}
\* "if request_count > 5" and requests_limit=5
RateLimit073 == 5
\* "if tokens_needed > 10", tokens_limit=10
TokensLimit073 == 10
TokensUsed073 == 8

handle_token_budget073(c) ==
    LET exc == c.exc
    IN  SetHeader(Respond(Step(Handled(c), "handle_token_budget"), 429, "",
                          [error |-> "token_budget_exceeded", message |-> exc.message,
                           user_id |-> exc.user_id, tokens_used |-> exc.tokens_used,
                           tokens_limit |-> exc.tokens_limit,
                           tokens_needed |-> exc.tokens_needed,
                           upgrade_url |-> "https://example.com/upgrade"]),
                  "X-RateLimit-Retry-After", "3600")

handle_rate_limit(c) ==
    LET exc == c.exc
    IN  SetHeader(Respond(Step(Handled(c), "handle_rate_limit"), 429, "",
                          [error |-> "rate_limit_exceeded", message |-> exc.message,
                           user_id |-> exc.user_id, requests_made |-> exc.requests_made,
                           requests_limit |-> exc.requests_limit,
                           retry_after_seconds |-> 60]),
                  "X-RateLimit-Retry-After", "60")

handle_provider_error(c) ==
    LET exc == c.exc
    IN  SetHeader(Respond(Step(Handled(c), "handle_provider_error"), 503, "",
                          [error |-> "provider_error", message |-> exc.message,
                           provider_name |-> exc.provider_name,
                           error_code |-> exc.error_code,
                           error_message |-> exc.error_message]),
                  "X-RateLimit-Retry-After", "3600")

handle_model_not_found(c) ==
    LET exc == c.exc
    IN  Respond(Step(Handled(c), "handle_model_not_found"), 404, "",
                [error |-> "model_not_found", message |-> exc.message,
                 model_name |-> exc.model_name,
                 available_models |-> exc.available_models])

\* chat that counts every request for a supported model: request_count += 1
\* before the rate-limit check.
chat073_counts_every_request(c, count) ==
    LET r == c.req
        c1 == Step(c, "chat")
        tokens_needed == Val(r.message) \div 4
    IN  IF "raises" \in DOMAIN r
        THEN [c |-> Raise(c1, r.raises), request_count |-> count]
        ELSE IF Val(r.model_name) \notin SUPPORTED_MODELS073
        THEN [c |-> Raise(c1, ModelNotFoundError(Val(r.model_name), SUPPORTED_MODELS073)),
              request_count |-> count]
        ELSE IF count + 1 > RateLimit073
        THEN [c |-> Raise(c1, RateLimitExceededError(Val(r.user_id), count + 1, RateLimit073)),
              request_count |-> count + 1]
        ELSE IF tokens_needed > TokensLimit073
        THEN [c |-> Raise(c1, TokenBudgetExceededError(Val(r.user_id), TokensUsed073,
                                                       TokensLimit073, tokens_needed)),
              request_count |-> count + 1]
        ELSE IF (count + 1) % 3 = 0
        THEN [c |-> Raise(c1, ProvderError("ExampleGenAIProvider", "provider_timeout",
                                           "The provider did not respond in time.")),
              request_count |-> count + 1]
        ELSE [c |-> Respond(c1, 200, "", [response |-> "Simulated response"]),
              request_count |-> count + 1]

\* chat, with the module's request_count before and after
chat073(c, count) ==
    LET r == c.req
        c1 == Step(c, "chat")
        tokens_needed == Val(r.message) \div 4
    IN  IF "raises" \in DOMAIN r
        THEN [c |-> Raise(c1, r.raises), request_count |-> count]
        ELSE IF Val(r.model_name) \notin SUPPORTED_MODELS073
        THEN [c |-> Raise(c1, ModelNotFoundError(Val(r.model_name), SUPPORTED_MODELS073)),
              request_count |-> count]
        ELSE IF count > RateLimit073
        THEN [c |-> Raise(c1, RateLimitExceededError(Val(r.user_id), count + 1, RateLimit073)),
              request_count |-> count + 1]
        ELSE IF tokens_needed > TokensLimit073
        THEN [c |-> Raise(c1, TokenBudgetExceededError(Val(r.user_id), TokensUsed073,
                                                       TokensLimit073, tokens_needed)),
              request_count |-> count]
        ELSE IF count % 3 = 0
        THEN [c |-> Raise(c1, ProvderError("ExampleGenAIProvider", "provider_timeout",
                                           "The provider did not respond in time.")),
              request_count |-> count]
        ELSE [c |-> Respond(c1, 200, "", [response |-> "Simulated response"]),
              request_count |-> count]

Endpoint073(c, count) ==
    LET r == c.req
    IN  IF r.op = "health_check"
        THEN [c |-> Respond(Step(c, "health_check"), 200, "", [status |-> "ok"]),
              request_count |-> count]
        ELSE IF r.op = "list_models"
        THEN [c |-> Respond(Step(c, "list_models"), 200, "",
                            [available_models |-> SUPPORTED_MODELS073]),
              request_count |-> count]
        ELSE IF r.user_id = None \/ r.model_name = None \/ r.message = None
        THEN [c |-> Respond(c, 422, "validation error", NoBody), request_count |-> count]
        ELSE chat073(c, count)

exception_handlers073 ==
    {"TokenBudgetExceededError", "RateLimitExceededError", "ProvderError",
     "ModelNotFoundError"}

\* ExceptionMiddleware with the four registered handlers; an exception none of
\* them takes is answered by the server's plain 500.
App073(c, count) ==
    LET e == Endpoint073(c, count)
        d == e.c
        h == lookup_handler(exception_handlers073, d.exc.type)
    IN  [e EXCEPT !.c =
            IF h = "TokenBudgetExceededError" THEN handle_token_budget073(d)
            ELSE IF h = "RateLimitExceededError" THEN handle_rate_limit(d)
            ELSE IF h = "ProvderError" THEN handle_provider_error(d)
            ELSE IF h = "ModelNotFoundError" THEN handle_model_not_found(d)
            ELSE IF d.exc # NoException
            THEN Respond(Handled(d), 500, "Internal Server Error", NoBody)
            ELSE d]

\* len(message): 43 // 4 = 10, 44 // 4 = 11
MessageLengths073 == {8, 43, 44}

Requests073 ==
    { [op |-> o] : o \in {"health_check", "list_models"} }
    \cup { [op |-> "chat", user_id |-> u, model_name |-> m, message |-> l] :
             u \in Opt({"u1"}), m \in Opt({"gpt-4", "gpt-99"}),
             l \in Opt(MessageLengths073) }

\* One exception of every class a handler is registered for.
ClassifiedExceptions ==
    { TokenBudgetExceededError("u1", 8, 10, 11),
      RateLimitExceededError("u1", 7, 5),
      ProvderError("ExampleGenAIProvider", "provider_timeout",
                   "The provider did not respond in time."),
      ModelNotFoundError("gpt-99", SUPPORTED_MODELS073) }

\* A POST /chat during which the body of chat raises e.
Failing073(e) ==
    [op |-> "chat", user_id |-> Some("u1"), model_name |-> Some("gpt-4"),
     message |-> Some(8), raises |-> e]

\* ------------------------------------------------------------------- state

Apps == {"05", "06_1", "06_3", "06_4", "07_2", "07_3", "07_4", "08_2", "08_4", "mp01",
         "mp02"}

NoModels == <<>>
NoUsers == [x \in {} |-> NoBody]

\* The worker threads of the threadpool in which Starlette runs the endpoints
\* and dependencies declared with def; a worker is at a statement of a handler.
Workers == 1 .. MaxWorkers
Worker(pc, r, local, out) == [pc |-> pc, req |-> r, local |-> local, out |-> out]

Init ==
    /\ app \in Apps
    /\ nreq = 0
    /\ MODELS = IF app \in {"mp01", "mp02"} THEN MODELS0 ELSE NoModels
    /\ USERS = IF app = "06_3" THEN USERS063 ELSE NoUsers
    /\ settings_loads = 0
    /\ request_count = 0
    /\ chat_requests = 0
    /\ uuid_calls = 0
    /\ generated = {}
    /\ deleted = {}
    /\ req = [op |-> "none"]
    /\ resp = Response(0, "", NoBody)
    /\ steps = <<>>
    /\ log = <<>>
    /\ state = NoState
    /\ threads = [t \in Workers |-> Worker("idle", [op |-> "none"], 0, NoBody)]

\* The request-scoped variables after a request with outcome out.
Served(r, out) ==
    /\ nreq < (IF app = "07_3" THEN MaxRequests073 ELSE MaxRequests)
    /\ nreq' = nreq + 1
    /\ req' = r
    /\ resp' = out.resp
    /\ steps' = out.steps
    /\ log' = out.log
    /\ state' = out.state

Request061 ==
    /\ app = "06_1"
    /\ \E op \in {"list_models", "chat", "get_settings"}, k \in Opt(Keys061),
          m \in Opt({"hello"}) :
          Served([op |-> op, x_api_key |-> k, message |-> m], Serve061(op, k, m))
    /\ UNCHANGED <<app, threads, request_count, chat_requests, MODELS, USERS, settings_loads, uuid_calls, generated, deleted>>

Request063 ==
    /\ app = "06_3"
    /\ \E op \in {"chat", "get_profile"}, k \in Opt(Keys063), p \in Opt(Prompts063) :
          LET r == Serve063(op, k, p, USERS)
          IN  /\ Served([op |-> op, x_api_key |-> k, prompt |-> p], r.out)
              /\ USERS' = r.users
    /\ UNCHANGED <<app, threads, request_count, chat_requests, MODELS, settings_loads, uuid_calls, generated, deleted>>

Request064 ==
    /\ app = "06_4"
    /\ \E m \in Opt(ModelNames064), t \in Opt(MaxTokens064),
          rt \in Opt(RequestedTokens064) :
          LET r == ServeChat064(m, t, rt, settings_loads)
          IN  /\ Served([op |-> "chat", model_name |-> m, max_tokens |-> t,
                         requested_tokens |-> rt], r.out)
              /\ settings_loads' = r.loads
    /\ UNCHANGED <<app, threads, request_count, chat_requests, MODELS, USERS, uuid_calls, generated, deleted>>

\* 05: create_model and delete_model answer 201 and 204 and keep nothing.
Request05 ==
    /\ app = "05"
    /\ \/ \E id \in PathIds :
             Served([op |-> "get_model", model_id |-> id], get_model_or_404(id))
       \/ \E name \in Opt({"Custom"}) :
             Served([op |-> "create_model", model_name |-> name],
                    IF name = None THEN RequestValidationError(<<>>)
                    ELSE Returned(201, [id |-> "model-123", name |-> Val(name),
                                        status |-> "created"], <<"create_model">>))
       \/ \E id \in PathIds :
             Served([op |-> "delete_model", model_id |-> id],
                    Returned(204, NoBody, <<"delete_model">>))
    /\ UNCHANGED <<app, threads, request_count, chat_requests, MODELS, USERS, settings_loads, uuid_calls, generated, deleted>>

RequestMP01 ==
    /\ app = "mp01"
    /\ \/ /\ \E id \in PathIds :
                Served([op |-> "get_model", model_id |-> id], get_model_01(id, MODELS))
          /\ UNCHANGED <<MODELS, deleted>>
       \/ /\ \E p \in Opt({"meta", "bogus"}), l \in Opt({0, 2}) :
                Served([op |-> "list_models", provider |-> p, limit |-> l],
                       list_models_01(p, l, MODELS))
          /\ UNCHANGED <<MODELS, deleted>>
       \/ /\ \E b \in ChatBodies :
                Served([op |-> "create_chat_completion", body |-> b],
                       create_chat_completion_01(b, MODELS))
          /\ UNCHANGED <<MODELS, deleted>>
       \/ \E m \in NewModels :
             LET r == create_model_01(m, MODELS)
             IN  /\ Served([op |-> "create_model", body |-> m], r.out)
                 /\ MODELS' = r.models
                 /\ deleted' = IF r.out.resp.status = 201 THEN deleted \ {m.id} ELSE deleted
       \/ \E id \in PathIds :
             LET r == delete_model_01(id, MODELS)
             IN  /\ Served([op |-> "delete_model", model_id |-> id], r.out)
                 /\ MODELS' = r.models
                 /\ deleted' = IF r.out.resp.status = 204 THEN deleted \cup {id} ELSE deleted
    /\ UNCHANGED <<app, threads, request_count, chat_requests, USERS, settings_loads, uuid_calls, generated>>

RequestMP02 ==
    /\ app = "mp02"
    /\ \E k \in Opt(KeysMP02) :
       \/ /\ \E id \in PathIds :
                Served([op |-> "get_model", x_api_key |-> k, model_id |-> id],
                       get_model_02(k, id, MODELS))
          /\ UNCHANGED <<MODELS, deleted>>
       \/ /\ \E p \in Opt({"meta", "bogus"}), l \in Opt({0, 2}) :
                Served([op |-> "list_models", x_api_key |-> k, provider |-> p, limit |-> l],
                       list_models_02(k, p, l, MODELS))
          /\ UNCHANGED <<MODELS, deleted>>
       \/ /\ \E b \in ChatBodies :
                Served([op |-> "create_chat_completion", x_api_key |-> k, body |-> b],
                       create_chat_completion_02(k, b, MODELS))
          /\ UNCHANGED <<MODELS, deleted>>
       \/ \E m \in NewModels :
             LET r == create_model_02(k, m, MODELS)
             IN  /\ Served([op |-> "create_model", x_api_key |-> k, body |-> m], r.out)
                 /\ MODELS' = r.models
                 /\ deleted' = IF r.out.resp.status = 201 THEN deleted \ {m.id} ELSE deleted
       \/ \E id \in PathIds :
             LET r == delete_model_02(k, id, MODELS)
             IN  /\ Served([op |-> "delete_model", x_api_key |-> k, model_id |-> id], r.out)
                 /\ MODELS' = r.models
                 /\ deleted' = IF r.out.resp.status = 204 THEN deleted \cup {id} ELSE deleted
    /\ UNCHANGED <<app, threads, request_count, chat_requests, USERS, settings_loads, uuid_calls, generated>>

\* A request served by an application with middleware layers; the ids given to
\* requests that sent no X-Request-ID are remembered.
ServedCall(d) ==
    /\ Served(d.req, Finished(d))
    /\ uuid_calls' = d.uuid_calls
    /\ generated' = IF d.req.x_request_id = None /\ "request_id" \in DOMAIN d.state
                    THEN generated \cup {d.state.request_id}
                    ELSE generated
    /\ UNCHANGED <<app, threads, request_count, chat_requests, MODELS, USERS, settings_loads, deleted>>

\* 07_2: one call of validate_token_budget; the response holds what it raised.
Request072 ==
    /\ app = "07_2"
    /\ \E u \in Users072, b \in Budgets072, m \in MessageLengths072 :
          Served([op |-> "validate_token_budget", user_id |-> u, tokens_used |-> b[1],
                  tokens_limit |-> b[2], request_message |-> m],
                 Outcome(Response(0, "", validate_token_budget(u, b[1], b[2], m)),
                         <<"validate_token_budget">>, <<>>, NoState))
    /\ UNCHANGED <<app, threads, request_count, chat_requests, MODELS, USERS, settings_loads,
                   uuid_calls, generated, deleted>>

\* A request served by 07_3.
Served073(r) ==
    LET e == App073(Call(r, uuid_calls), request_count)
    IN  /\ Served(r, Finished(e.c))
        /\ request_count' = e.request_count
        /\ chat_requests' = IF r.op = "chat" /\ r.model_name # None /\ r.user_id # None
                               /\ r.message # None
                               /\ Val(r.model_name) \in SUPPORTED_MODELS073
                            THEN chat_requests + 1
                            ELSE chat_requests
        /\ UNCHANGED <<app, threads, MODELS, USERS, settings_loads, uuid_calls, generated, deleted>>

Request073 ==
    /\ app = "07_3"
    /\ \E r \in Requests073 : Served073(r)

\* The registered handlers applied to one exception of every registered class.
Translate073 ==
    /\ app = "07_3"
    /\ \E e \in ClassifiedExceptions : Served073(Failing073(e))

Request074 ==
    /\ app = "07_4"
    /\ \E r \in Requests074 : ServedCall(ServerErrorMiddleware074(Call(r, uuid_calls)))

\* handle_unexpected applied to the exceptions of UnexpectedExceptions.
Unexpected074 ==
    /\ app = "07_4"
    /\ \E x \in Opt(ClientIds), e \in UnexpectedExceptions :
          ServedCall(ServerErrorMiddleware074(Call(Failing074(x, e), uuid_calls)))

Request082 ==
    /\ app = "08_2"
    /\ \E r \in Requests082 : ServedCall(RequestIDMiddleware082(Call(r, uuid_calls)))

Request084 ==
    /\ app = "08_4"
    /\ \E r \in Requests084 : ServedCall(App084(Call(r, uuid_calls)))

Next ==
    \/ Request05
    \/ Request061
    \/ Request063
    \/ Request064
    \/ Request072
    \/ Request073
    \/ Request074
    \/ Request082
    \/ Request084
    \/ RequestMP01
    \/ RequestMP02

Spec == Init /\ [][Next]_vars

\* The dependency examples alone.
InitDeps == Init /\ app \in {"06_1", "06_3", "06_4"}
SpecDeps == InitDeps /\ [][Request061 \/ Request063 \/ Request064]_vars

\* The programs with a model registry alone.
InitRegistry == Init /\ app \in {"05", "mp01", "mp02"}
SpecRegistry == InitRegistry /\ [][Request05 \/ RequestMP01 \/ RequestMP02]_vars

\* The programs with middleware layers alone.
InitMiddleware == Init /\ app \in {"07_4", "08_2", "08_4"}
SpecMiddleware == InitMiddleware /\ [][Request074 \/ Request082 \/ Request084]_vars

\* The programs with custom exceptions alone.
InitErrors == Init /\ app \in {"07_2", "07_3", "07_4"}
SpecErrors == InitErrors /\ [][Request072 \/ Request073 \/ Request074]_vars

\* 07_3 and 07_4 with their exception handlers applied to exceptions of every
\* registered class and of none.
InitHandlers == Init /\ app \in {"07_3", "07_4"}
SpecHandlers == InitHandlers /\ [][Request073 \/ Request074 \/ Translate073 \/ Unexpected074]_vars

\* ------------------------------------------------- requests in execution together
\* The endpoints and dependencies of mini_project_01, mini_project_02 and 06_3
\* are plain def functions: Starlette runs each in a worker thread, and a thread
\* may be suspended between any two statements.  One action is one statement
\* that reads or writes the shared MODELS or USERS.

RequestsConcurrent(a) ==
    IF a = "mp01"
    THEN { [op |-> "create_model", body |-> m] : m \in NewModels }
         \cup { [op |-> "delete_model", model_id |-> id] : id \in PathIds }
    ELSE IF a = "mp02"
    THEN { [op |-> "create_model", x_api_key |-> k, body |-> m] :
             k \in Opt({"admin-123", "key-123"}), m \in NewModels }
         \cup { [op |-> "delete_model", x_api_key |-> k, model_id |-> id] :
                  k \in Opt({"admin-123", "key-123"}), id \in PathIds }
    ELSE { [op |-> "chat", x_api_key |-> k, prompt |-> p] :
             k \in Opt(Keys063), p \in Opt({Text("hi", 1), Text("<740 words>", 740)}) }
         \cup { [op |-> "get_profile", x_api_key |-> k] : k \in Opt(Keys063) }

\* What FastAPI does before it calls the handler: the dependencies and the
\* validation of the parameters.  Yields the outcome that ends the request
\* there, or None when the handler is called.
BeforeHandler(a, r, users) ==
    IF a = "mp01"
    THEN IF r.op = "create_model" /\ ~ModelInfoValid(r.body)
         THEN Some(RequestValidationError(<<>>))
         ELSE None
    ELSE IF a = "mp02"
    THEN IF AdminGate(r.x_api_key) # None
         THEN AdminGate(r.x_api_key)
         ELSE IF r.op = "create_model" /\ ~ModelInfoValid(r.body)
         THEN Some(RequestValidationError(AdminSteps))
         ELSE None
    ELSE IF r.x_api_key = None
    THEN Some(RequestValidationError(<<>>))
    ELSE IF ~verify_api_key_063(Val(r.x_api_key), users)
    THEN Some(HTTPException(401, "Invalid API Key", <<"verify_api_key">>))
    ELSE IF r.op = "get_profile"
    THEN None
    ELSE IF ~check_token_usage(users[Val(r.x_api_key)])
    THEN Some(HTTPException(403, "Token limit exceeded",
                            <<"verify_api_key", "get_current_user", "check_token_usage">>))
    ELSE IF r.prompt = None
    THEN Some(RequestValidationError(<<"verify_api_key", "get_current_user",
                                       "check_token_usage">>))
    ELSE None

\* The functions that have executed when the handler of app a is entered.
StepsBefore(a, op) ==
    IF a = "mp01" THEN <<op>>
    ELSE IF a = "mp02" THEN Append(AdminSteps, op)
    ELSE IF op = "get_profile" THEN <<"verify_api_key", "get_current_user", op>>
    ELSE <<"verify_api_key", "get_current_user", "check_token_usage", op>>

\* Worker t moves on to the statement pc with the local value v.
Goto(t, pc, v) ==
    /\ threads' = [threads EXCEPT ![t] = Worker(pc, threads[t].req, v, NoBody)]
    /\ UNCHANGED <<nreq, req, resp, steps, log, state, deleted>>

\* The request of worker t ends with outcome out: the response leaves.
Finish(t, r, out) ==
    /\ Served(r, out)
    /\ threads' = [threads EXCEPT ![t] = Worker("done", r, threads[t].local, out)]
    /\ deleted' = IF out.resp.status = 204 THEN deleted \cup {r.model_id}
                  ELSE IF out.resp.status = 201 THEN deleted \ {r.body.id}
                  ELSE deleted

\* A request arrives and is given to a free worker: the dependencies run and
\* the parameters are validated.
Accept(t) ==
    /\ app \in {"mp01", "mp02", "06_3"}
    /\ threads[t].pc = "idle"
    /\ \E r \in RequestsConcurrent(app) :
          LET stop == BeforeHandler(app, r, USERS)
              first == IF r.op = "create_model" THEN "create: if id in MODELS"
                       ELSE IF r.op = "delete_model" THEN "delete: if id not in MODELS"
                       ELSE IF r.op = "get_profile" THEN "get_profile: return"
                       ELSE "chat: read tokens_used"
          IN  IF stop # None
              THEN Finish(t, r, Val(stop))
              ELSE /\ threads' = [threads EXCEPT
                                    ![t] = Worker(first, r, 0, NoBody)]
                   /\ UNCHANGED <<nreq, req, resp, steps, log, state, deleted>>
    /\ UNCHANGED <<MODELS, USERS>>
    /\ UNCHANGED <<app, settings_loads, request_count, chat_requests, uuid_calls, generated>>

\* create_model: if model.id in MODELS: raise HTTPException(400)
CreateCheck(t) ==
    /\ threads[t].pc = "create: if id in MODELS"
    /\ LET r == threads[t].req
       IN  IF Has(MODELS, r.body.id)
           THEN Finish(t, r, HTTPException(400, "Model with ID " \o r.body.id
                                                \o " already exists",
                                           StepsBefore(app, r.op)))
           ELSE Goto(t, "create: MODELS[id] = model", 0)
    /\ UNCHANGED <<MODELS, USERS>>
    /\ UNCHANGED <<app, settings_loads, request_count, chat_requests, uuid_calls, generated>>

\* create_model: MODELS[model.id] = model; return model
CreateStore(t) ==
    /\ threads[t].pc = "create: MODELS[id] = model"
    /\ LET r == threads[t].req
       IN  /\ MODELS' = SetItem(MODELS, r.body.id, r.body)
           /\ Finish(t, r, Returned(201, r.body, StepsBefore(app, r.op)))
    /\ UNCHANGED USERS
    /\ UNCHANGED <<app, settings_loads, request_count, chat_requests, uuid_calls, generated>>

\* delete_model: if model_id not in MODELS: raise HTTPException(404)
DeleteCheck(t) ==
    /\ threads[t].pc = "delete: if id not in MODELS"
    /\ LET r == threads[t].req
       IN  IF ~Has(MODELS, r.model_id)
           THEN Finish(t, r, HTTPException(404,
                                IF app = "mp01"
                                THEN "Model " \o r.model_id \o " not found"
                                ELSE "Model with ID " \o r.model_id \o " does not exist",
                                StepsBefore(app, r.op)))
           ELSE Goto(t, "delete: del MODELS[id]", 0)
    /\ UNCHANGED <<MODELS, USERS>>
    /\ UNCHANGED <<app, settings_loads, request_count, chat_requests, uuid_calls, generated>>

\* delete_model: del MODELS[model_id], which raises KeyError when the key is
\* not there; no handler is registered for it.
DeleteRemove(t) ==
    /\ threads[t].pc = "delete: del MODELS[id]"
    /\ LET r == threads[t].req
       IN  IF ~Has(MODELS, r.model_id)
           THEN /\ Finish(t, r, InternalServerError(StepsBefore(app, r.op)))
                /\ UNCHANGED MODELS
           ELSE /\ MODELS' = DelItem(MODELS, r.model_id)
                /\ Finish(t, r, Returned(204, NoBody, StepsBefore(app, r.op)))
    /\ UNCHANGED USERS
    /\ UNCHANGED <<app, settings_loads, request_count, chat_requests, uuid_calls, generated>>

\* chat: user.tokens_used += len(prompt.split()) + 10 reads the attribute, ...
ChatRead(t) ==
    /\ threads[t].pc = "chat: read tokens_used"
    /\ Goto(t, "chat: write tokens_used", USERS[Val(threads[t].req.x_api_key)].tokens_used)
    /\ UNCHANGED <<MODELS, USERS>>
    /\ UNCHANGED <<app, settings_loads, request_count, chat_requests, uuid_calls, generated>>

\* ... calls prompt.split() and len(), adds, and writes the attribute.
ChatWrite(t) ==
    /\ threads[t].pc = "chat: write tokens_used"
    /\ LET r == threads[t].req
       IN  USERS' = [USERS EXCEPT ![Val(r.x_api_key)].tokens_used =
                                     threads[t].local + TokensFor(Val(r.prompt))]
    /\ Goto(t, "chat: remaining_tokens", 0)
    /\ UNCHANGED MODELS
    /\ UNCHANGED <<app, settings_loads, request_count, chat_requests, uuid_calls, generated>>

\* chat: remaining_tokens = user.token_limit - user.tokens_used
ChatRemaining(t) ==
    /\ threads[t].pc = "chat: remaining_tokens"
    /\ LET user == USERS[Val(threads[t].req.x_api_key)]
       IN  Goto(t, "chat: return", user.token_limit - user.tokens_used)
    /\ UNCHANGED <<MODELS, USERS>>
    /\ UNCHANGED <<app, settings_loads, request_count, chat_requests, uuid_calls, generated>>

\* chat: return {...}, which reads user.tokens_used again
ChatReturn(t) ==
    /\ threads[t].pc = "chat: return"
    /\ LET r == threads[t].req
           user == USERS[Val(r.x_api_key)]
       IN  Finish(t, r, Returned(200, [email |-> user.email,
                                       tokens_used |-> user.tokens_used,
                                       token_limit |-> user.token_limit,
                                       remaining_tokens |-> threads[t].local],
                                 StepsBefore(app, r.op)))
    /\ UNCHANGED <<MODELS, USERS>>
    /\ UNCHANGED <<app, settings_loads, request_count, chat_requests, uuid_calls, generated>>

\* get_profile: return {...}
ProfileReturn(t) ==
    /\ threads[t].pc = "get_profile: return"
    /\ LET r == threads[t].req
           user == USERS[Val(r.x_api_key)]
       IN  Finish(t, r, Returned(200, [email |-> user.email,
                                       tokens_used |-> user.tokens_used,
                                       token_limit |-> user.token_limit,
                                       remaining_tokens |->
                                           user.token_limit - user.tokens_used],
                                 StepsBefore(app, r.op)))
    /\ UNCHANGED <<MODELS, USERS>>
    /\ UNCHANGED <<app, settings_loads, request_count, chat_requests, uuid_calls, generated>>

NextConcurrent ==
    \E t \in Workers :
        \/ Accept(t)
        \/ CreateCheck(t)
        \/ CreateStore(t)
        \/ DeleteCheck(t)
        \/ DeleteRemove(t)
        \/ ChatRead(t)
        \/ ChatWrite(t)
        \/ ChatRemaining(t)
        \/ ChatReturn(t)
        \/ ProfileReturn(t)
InitConcurrent == Init /\ app \in {"mp01", "mp02", "06_3"}
SpecConcurrent == InitConcurrent /\ [][NextConcurrent]_vars

\* ================================================================== claims

\* The step just taken served a request.
ServedNow == nreq' = nreq + 1

\* The handler body of the request served last has executed.
HandlerRan == \E i \in DOMAIN steps : steps[i] = req.op

\* The registry as the claims read it: the ids it holds, and the entry of an id.
Registered(id) == \E i \in DOMAIN MODELS : MODELS[i].id = id
Entry(id) == MODELS[CHOOSE i \in DOMAIN MODELS : MODELS[i].id = id]

KeyOf(r) == r.x_api_key
ValidKeyMP02(r) == KeyOf(r) # None /\ Val(KeyOf(r)) \in {"key-123", "key-456", "admin-123"}
AdminKeyMP02(r) == KeyOf(r) = Some("admin-123")
TierOf(r) ==
    IF KeyOf(r) = Some("key-123") THEN "free"
    ELSE IF KeyOf(r) = Some("key-456") THEN "pro" ELSE "admin"

\* ---- C1
\* C1: every request to a credential-protected endpoint (06_1, 06_3,
\* mini_project_02) that lacks the X-API-Key header is answered 401, its handler
\* body does not run and the registries and token counters are unchanged.
C1_MissingCredentialIs401 ==
    [][(ServedNow /\ app \in {"06_1", "06_3", "mp02"} /\ KeyOf(req') = None)
        => /\ resp'.status = 401
           /\ ~HandlerRan'
           /\ MODELS' = MODELS
           /\ USERS' = USERS]_vars

\* The part of C1 that the code keeps: without the header no handler body runs
\* and nothing is changed.
C1_NoSideEffectWithoutCredential ==
    [][(ServedNow /\ app \in {"06_1", "06_3", "mp02"} /\ KeyOf(req') = None)
        => /\ resp'.status \in {422, 404}
           /\ ~HandlerRan'
           /\ MODELS' = MODELS
           /\ USERS' = USERS]_vars

\* ---- C2
\* C2: in the dependency chain of 06_3 POST /chat, an unknown API key stops at
\* verify_api_key with 401, and a user with tokens_used >= token_limit stops at
\* check_token_usage with 403; in both cases no later step and no handler body
\* runs and no tokens_used changes.
C2_ChainShortCircuits ==
    [][(ServedNow /\ app = "06_3" /\ req'.op = "chat" /\ KeyOf(req') # None)
        => LET k == Val(KeyOf(req'))
           IN  /\ k \notin DOMAIN USERS
                    => /\ resp'.status = 401
                       /\ steps' = <<"verify_api_key">>
                       /\ USERS' = USERS
               /\ (k \in DOMAIN USERS /\ USERS[k].tokens_used >= USERS[k].token_limit)
                    => /\ resp'.status = 403
                       /\ steps' = <<"verify_api_key", "get_current_user", "check_token_usage">>
                       /\ USERS' = USERS]_vars

\* A chat request was stopped at check_token_usage: the user had reached the limit.
C2_Witness ==
    /\ app = "06_3" /\ req.op = "chat" /\ resp.status = 403
    /\ USERS[Val(KeyOf(req))].tokens_used >= USERS[Val(KeyOf(req))].token_limit

\* ---- C4
\* C4: in both mini projects, once model id m was deleted with 204 and not
\* created again, GET /models/{m} yields 404 and a further DELETE /models/{m}
\* yields 404 (in mini_project_02: for a caller that passes the endpoint's
\* credential check; no caller is answered 200 or 204).
C4_DeletedThenNotFound ==
    [][(ServedNow /\ app \in {"mp01", "mp02"} /\ req'.op \in {"get_model", "delete_model"}
        /\ req'.model_id \in deleted)
        => /\ resp'.status \notin {200, 204}
           /\ app = "mp01" => resp'.status = 404
           /\ (app = "mp02" /\ req'.op = "get_model" /\ ValidKeyMP02(req'))
                => resp'.status = 404
           /\ (app = "mp02" /\ req'.op = "delete_model" /\ AdminKeyMP02(req'))
                => resp'.status = 404]_vars

\* A fetch of an id of the initial registry, deleted before, was answered 404.
C4_Witness ==
    /\ app = "mp02" /\ req.op = "get_model" /\ req.model_id = "gpt-4"
    /\ "gpt-4" \in deleted /\ ValidKeyMP02(req) /\ resp.status = 404

\* ---- C5
\* C5: in both mini projects, creating a model (a valid ModelInfo; in
\* mini_project_02 by the admin) whose id is a key of MODELS yields 400 and
\* leaves the registry as it was; with an id not in MODELS it yields 201 and
\* adds exactly that entry.
C5_DuplicateRejected ==
    [][(ServedNow /\ app \in {"mp01", "mp02"} /\ req'.op = "create_model"
        /\ req'.body.provider \in {"openai", "anthropic", "meta", "litellm"}
        /\ (app = "mp02" => AdminKeyMP02(req')))
        => IF Registered(req'.body.id)
           THEN resp'.status = 400 /\ MODELS' = MODELS
           ELSE resp'.status = 201 /\ MODELS' = Append(MODELS, req'.body)]_vars

\* A create with the id of an entry that differs from the body was answered 400.
C5_Witness ==
    /\ app = "mp02" /\ req.op = "create_model" /\ resp.status = 400
    /\ Registered(req.body.id) /\ Entry(req.body.id) # req.body

\* ---- C6
\* C6: in mini_project_02 POST /chat/completions with a valid credential, a
\* valid body and a registered model: max_tokens above 1000 yields 403 for the
\* free tier and 201 for pro and admin; a free-tier request with max_tokens
\* <= 1000 yields 201.
C6_TierBound ==
    (app = "mp02" /\ req.op = "create_chat_completion" /\ ValidKeyMP02(req)
     /\ \A i \in DOMAIN req.body.messages :
            req.body.messages[i].role \in {"user", "assistant", "system"}
     /\ (req.body.max_tokens.tag = "int"
            => req.body.max_tokens.v > 1 /\ req.body.max_tokens.v < 4096)
     /\ Registered(IF req.body.model = None THEN "gpt-4" ELSE Val(req.body.model))
     /\ req.body.max_tokens.tag # "null")
    => LET mt == IF req.body.max_tokens.tag = "absent" THEN 1000
                 ELSE req.body.max_tokens.v
       IN  /\ (mt > 1000 /\ TierOf(req) = "free") => resp.status = 403
           /\ (mt > 1000 /\ TierOf(req) # "free") => resp.status = 201
           /\ (mt <= 1000 /\ TierOf(req) = "free") => resp.status = 201

\* ---- C7
\* C7: GET /models/{model_id} (05, mini_project_01, and mini_project_02 with a
\* valid credential) for an id that is not in the registry returns 404 with
\* detail "Model <id> not found"; for an id in the registry it returns 200 with
\* that id's descriptor.
C7_DetailEndpoint ==
    (req.op = "get_model" /\ app \in {"05", "mp01", "mp02"}
     /\ (app = "mp02" => ValidKeyMP02(req)))
    => LET known == IF app = "05" THEN req.model_id = "gpt-4"
                    ELSE Registered(req.model_id)
       IN  IF known
           THEN /\ resp.status = 200
                /\ resp.body = (IF app = "05"
                                THEN [id |-> "gpt-4", name |-> "GPT-4", status |-> "available"]
                                ELSE Entry(req.model_id))
           ELSE /\ resp.status = 404
                /\ resp.detail = "Model " \o req.model_id \o " not found"
                /\ req.model_id = "gpt-99" => resp.detail = "Model gpt-99 not found"

\* The literal scenario: gpt-99 requested from mini_project_02 with a valid key.
C7_Witness ==
    /\ app = "mp02" /\ req.op = "get_model" /\ req.model_id = "gpt-99"
    /\ ValidKeyMP02(req) /\ resp.status = 404 /\ resp.detail = "Model gpt-99 not found"

\* ---- C3
\* C3: in 06_4 every POST /chat executes get_settings exactly once, although
\* the handler and both sibling steps declare it; every consumer that ran
\* observed the one Settings instance of this request; and the instance is not
\* reused by the next request (one execution per request served).
C3_SettingsOncePerRequest ==
    (app = "06_4" /\ req.op = "chat")
    => /\ Cardinality({i \in DOMAIN steps : steps[i] = "get_settings"}) = 1
       /\ \A i \in DOMAIN log : log[i].settings = settings_loads
       /\ settings_loads = nreq

\* A second request succeeded: get_settings, both sibling steps and the handler
\* ran and logged the instance they were given.
C3_Witness ==
    /\ app = "06_4" /\ req.op = "chat" /\ resp.status = 200 /\ nreq >= 2
    /\ {log[i].fn : i \in DOMAIN log}
         = {"get_settings", "get_api_key_for_model", "validate_max_tokens", "chat"}

\* ---- the correlation id (C8, C9, C10)

\* An id a client may send: the header's value is not empty.
WellFormed(id) == id # ""

\* The request served last sent a well-formed X-Request-ID.
SentId == req.x_request_id # None /\ WellFormed(Val(req.x_request_id))

\* The response carries the id in its X-Request-ID header.
HeaderIs(id) == "X-Request-ID" \in DOMAIN resp.headers /\ resp.headers["X-Request-ID"] = id

\* Every log record of the request carries the id.
LoggedWith(id) == \A i \in DOMAIN log : log[i].id = id

\* The id uuid4 produced while the request served last was handled.
FreshId == "uuid-" \o ToString(uuid_calls)

\* C8 as written: in 08_2 and 08_4 every request that sends a well-formed
\* X-Request-ID gets a response whose X-Request-ID header is that id, and every
\* log record of the request (LoggingMiddleware's lines included) carries that
\* id, never "unknown".
C8_ClientIdEchoed ==
    (app \in {"08_2", "08_4"} /\ req.op # "none" /\ SentId)
    => /\ HeaderIs(Val(req.x_request_id))
       /\ LoggedWith(Val(req.x_request_id))

\* C8, amended: the same for every request that CORSMiddleware does not answer
\* itself as a preflight request; such a request passes RequestIDMiddleware, and
\* at least the middleware's own records are logged for it in 08_2 and by
\* LoggingMiddleware in 08_4.
C8_ClientIdEchoedPastCors ==
    (app \in {"08_2", "08_4"} /\ req.op # "none" /\ SentId /\ ~IsPreflight(req))
    => /\ HeaderIs(Val(req.x_request_id))
       /\ LoggedWith(Val(req.x_request_id))
       /\ Len(log) >= 2

C8_Witness ==
    /\ app = "08_4" /\ req.op = "chat" /\ SentId /\ resp.status = 200
    /\ req.origin # None
    /\ {log[i].msg : i \in DOMAIN log} = {"REQUEST", "LLM CALL", "RESPONSE"}

\* C9: in 08_2 and 07_4 a request that sends no X-Request-ID gets exactly one
\* fresh id, different from the id of every earlier such request, and that one
\* id is request.state.request_id, the id of every log record, the request_id
\* field of the response body where the body has one, and the X-Request-ID
\* response header.
C9_FreshIdEverywhere ==
    [][(ServedNow /\ app \in {"08_2", "07_4"} /\ req'.x_request_id = None)
       => /\ uuid_calls' = uuid_calls + 1
          /\ state'.request_id = uuid4(uuid_calls)
          /\ state'.request_id \notin generated
          /\ \A i \in DOMAIN log' : log'[i].id = state'.request_id
          /\ "request_id" \in DOMAIN resp'.body => resp'.body.request_id = state'.request_id
          /\ "X-Request-ID" \in DOMAIN resp'.headers
          /\ resp'.headers["X-Request-ID"] = state'.request_id]_vars

\* C10: in 08_2 and 08_4 the id assigned to a request that reaches
\* RequestIDMiddleware is the X-Request-ID the client sent only if that header
\* is present and well-formed, and otherwise (header absent, or present and
\* empty) a freshly generated id; it is assigned before the endpoint runs.
C10_SuppliedOnlyIfWellFormed ==
    (app \in {"08_2", "08_4"} /\ req.op # "none" /\ ~IsPreflight(req))
    => /\ "request_id" \in DOMAIN state
       /\ state.request_id = IF SentId THEN Val(req.x_request_id) ELSE FreshId
       /\ \A i, j \in DOMAIN steps :
            (steps[i] = "RequestIDMiddleware:request" /\ steps[j] = req.op) => i < j

\* ---- failure translation (C11, C12, C13, C14)

ErrorRecords == {"token_budget_exceeded", "anthropic_error", "unhandled_exception"}

\* C11: in 07_4 every error response (429 token budget, 503 provider, 500
\* unexpected) carries in its body the request_id the middleware assigned, the
\* error log record carries the same id, and the response has that id in its
\* X-Request-ID header.
C11_ErrorResponseCarriesId ==
    (app = "07_4" /\ resp.status \in {429, 503, 500})
    => /\ "request_id" \in DOMAIN resp.body
       /\ resp.body.request_id = state.request_id
       /\ \E i \in DOMAIN log : log[i].msg \in ErrorRecords /\ log[i].id = state.request_id
       /\ \A i \in DOMAIN log : log[i].msg \in ErrorRecords => log[i].id = state.request_id
       /\ HeaderIs(state.request_id)

\* C12: in 07_4 an unexpected failure is answered 500 with a generic body that
\* does not depend on the exception: had the request raised any other
\* unexpected exception, the response would have been the same; no field of
\* the body is the exception's type or message, which are written only to the
\* unhandled_exception log record, with the request's id.
C12_UnexpectedIsGeneric ==
    (app = "07_4" /\ "raises" \in DOMAIN req)
    => /\ resp.status = 500
       /\ \A e \in UnexpectedExceptions :
            ServerErrorMiddleware074(Call([req EXCEPT !.raises = e], uuid_calls - 1)).resp
              = resp
       /\ \A f \in DOMAIN resp.body : resp.body[f] \notin {req.raises.type, req.raises.message}
       /\ \E i \in DOMAIN log :
            /\ log[i].msg = "unhandled_exception"
            /\ log[i].id = state.request_id
            /\ log[i].exception_type = req.raises.type
            /\ log[i].exception_message = req.raises.message

C12_Witness ==
    /\ app = "07_4" /\ "raises" \in DOMAIN req /\ req.raises.type = "ConnectionError"
    /\ resp.status = 500 /\ resp.body.error = "internal_error" /\ nreq >= 2

\* What the request served last raised, and the functions that ran for it.
Raised(cls) == \E i \in DOMAIN steps : steps[i] = "raise " \o cls
Ran(fn) == \E i \in DOMAIN steps : steps[i] = fn

ClassifiedKinds ==
    {"ModelNotFoundError", "TokenBudgetExceededError", "RateLimitExceededError",
     "ProvderError", "ProviderError"}

\* C13: in 07_3 and 07_4 a failure is translated by the handler of its own
\* kind: ModelNotFoundError gives 404, TokenBudgetExceededError and
\* RateLimitExceededError give 429, the provider error gives 503; the catch-all
\* runs, and 500 is answered, only for a failure of none of these kinds.
C13_DispatchByKind ==
    app \in {"07_3", "07_4"}
    => /\ Raised("ModelNotFoundError")
            => resp.status = 404 /\ Ran("handle_model_not_found")
       /\ Raised("TokenBudgetExceededError")
            => resp.status = 429 /\ Ran("handle_token_budget")
       /\ Raised("RateLimitExceededError")
            => resp.status = 429 /\ Ran("handle_rate_limit")
       /\ Raised("ProvderError") => resp.status = 503 /\ Ran("handle_provider_error")
       /\ Raised("ProviderError") => resp.status = 503 /\ Ran("handle_provider")
       /\ (Ran("handle_unexpected") \/ resp.status = 500)
            => /\ \A k \in ClassifiedKinds : ~Raised(k)
               /\ \E i \in DOMAIN steps : steps[i] \in {"raise Exception", "raise KeyError",
                                                         "raise ConnectionError"}
               /\ Ran("handle_unexpected") /\ resp.status = 500

C13_Witness ==
    /\ app = "07_4" /\ Raised("TokenBudgetExceededError") /\ resp.status = 429
    /\ ~Ran("handle_unexpected") /\ nreq >= 2

StatusCodes == {200, 201, 204, 400, 401, 403, 404, 429, 503, 500}

\* C14: every response of mini_project_02 and 07_3 has a status code among
\* 200, 201, 204, 400, 401, 403, 404, 429, 503 and 500, also for a request
\* with a missing required header or query parameter or a body that fails
\* field validation.
C14_StatusCodesClosed ==
    (app \in {"mp02", "07_3"} /\ req.op # "none") => resp.status \in StatusCodes

\* ---- the complete middleware stack (C15, C19)

\* C15: in 08_4, for every request that reaches its endpoint, the layers run
\* before the endpoint in the order CORS, RequestID, Timing, Logging and after
\* it in the reverse order Logging, Timing, RequestID, CORS, the same for every
\* request of the process.
C15_LifoOrder ==
    (app = "08_4" /\ HandlerRan)
    => steps = <<"CORSMiddleware:request", "RequestIDMiddleware:request",
                 "TimingMiddleware:request", "LoggingMiddleware:request",
                 req.op,
                 "LoggingMiddleware:response", "TimingMiddleware:response",
                 "RequestIDMiddleware:response", "CORSMiddleware:response">>

C15_Witness ==
    /\ app = "08_4" /\ req.op = "chat_slow" /\ resp.status = 200 /\ nreq >= 2
    /\ Len(steps) = 9 /\ steps[5] = "chat_slow"

\* ---- mini_project_02: the admin operations (C16)

\* C16: POST /models and DELETE /models/{model_id} change MODELS only for a
\* caller whose tier is admin; an authenticated free or pro user is answered
\* 403 and an unauthenticated caller 401, with MODELS unchanged in both cases.
C16_AdminOnly ==
    [][(ServedNow /\ app = "mp02" /\ req'.op \in {"create_model", "delete_model"})
       => /\ MODELS' # MODELS => AdminKeyMP02(req')
          /\ (ValidKeyMP02(req') /\ ~AdminKeyMP02(req'))
                => resp'.status = 403 /\ MODELS' = MODELS
          /\ ~ValidKeyMP02(req') => resp'.status = 401 /\ MODELS' = MODELS]_vars

\* The part of C16 that does not concern the caller without a credential.
C16_FrameForPresentedKeys ==
    [][(ServedNow /\ app = "mp02" /\ req'.op \in {"create_model", "delete_model"})
       => /\ MODELS' # MODELS => AdminKeyMP02(req')
          /\ (ValidKeyMP02(req') /\ ~AdminKeyMP02(req'))
                => resp'.status = 403 /\ MODELS' = MODELS
          /\ (KeyOf(req') # None /\ ~ValidKeyMP02(req'))
                => resp'.status = 401 /\ MODELS' = MODELS
          /\ KeyOf(req') = None => MODELS' = MODELS]_vars

\* ---- 07_2: validate_token_budget (C17)

\* C17: validate_token_budget raises TokenBudgetExceededError exactly when
\* len(request_message) // 4 is strictly greater than tokens_limit - tokens_used
\* and returns otherwise, also when the two are equal; the error carries the
\* caller's user_id, tokens_used and tokens_limit and the computed tokens_needed.
C17_BudgetCheck ==
    (app = "07_2" /\ req.op = "validate_token_budget")
    => LET needed == req.request_message \div 4
           remaining == req.tokens_limit - req.tokens_used
       IN  IF needed > remaining
           THEN /\ resp.body.type = "TokenBudgetExceededError"
                /\ resp.body.user_id = req.user_id
                /\ resp.body.tokens_used = req.tokens_used
                /\ resp.body.tokens_limit = req.tokens_limit
                /\ resp.body.tokens_needed = needed
           ELSE resp.body.type = ""

\* test_exact_budget's situation: the request needs exactly what remains.
C17_Witness ==
    /\ app = "07_2" /\ req.op = "validate_token_budget"
    /\ req.request_message \div 4 = req.tokens_limit - req.tokens_used
    /\ req.tokens_used = 9900 /\ resp.body.type = ""

\* ---- 06_4: the token limit (C18)

\* C18: in 06_4 every POST /chat (with all its required parameters, for a gpt
\* or claude model) whose max_tokens exceeds settings.max_tokens (8192) is
\* answered 400 without the body of chat running, and the
\* tokens_validated of a successful request is the request's max_tokens.
C18_MaxTokensValidated ==
    (app = "06_4" /\ req.op = "chat" /\ req.model_name # None /\ req.requested_tokens # None
       /\ (StartsWith(Val(req.model_name), <<"g", "p", "t">>)
           \/ StartsWith(Val(req.model_name), <<"c", "l", "a", "u", "d", "e">>)))
    => LET max_tokens == Get(req.max_tokens, 1000)
       IN  /\ max_tokens > 8192 => resp.status = 400 /\ ~HandlerRan
           /\ resp.status = 200 => resp.body.tokens_validated = max_tokens

\* C19: in 08_4 the RESPONSE log line of LoggingMiddleware shows the duration
\* TimingMiddleware measured for that request (request.state.process_time),
\* not the default 0.
C19_ResponseLogHasTiming ==
    app = "08_4"
    => \A i \in DOMAIN log :
         log[i].msg = "RESPONSE"
         => /\ "process_time" \in DOMAIN state
            /\ log[i].duration = state.process_time
            /\ log[i].duration # 0

\* ---- 07_3: the rate limit (C20)

\* C20: in 07_3, once more than 5 POST /chat requests for a supported model
\* have been made, every further such request is answered 429 by
\* handle_rate_limit with requests_limit 5.
C20_RateLimited ==
    [][(ServedNow /\ app = "07_3" /\ chat_requests > 5 /\ chat_requests' = chat_requests + 1)
       => /\ resp'.status = 429
          /\ resp'.body.error = "rate_limit_exceeded"
          /\ resp'.body.requests_limit = 5]_vars

\* ---- 07_3: the provider error and the counter (C21, C26)

\* The step just taken served a 07_3 POST /chat that passed body validation.
Chat073Now == ServedNow /\ app = "07_3" /\ req'.op = "chat" /\ resp'.status # 422

\* The "error" member of a response body, "" when it has none.
ErrorOf(r) == IF "error" \in DOMAIN r.body THEN r.body.error ELSE ""

\* C21: in 07_3 a POST /chat for a supported model with a message of at most 43
\* characters that is not rate-limited and is not the third of its cycle (the
\* number of such requests so far is no multiple of 3) returns the simulated
\* response with status 200.
C21_ProviderErrorEveryThirdOnly ==
    [][(Chat073Now /\ chat_requests' = chat_requests + 1
        /\ Val(req'.message) <= 43
        /\ ErrorOf(resp') # "rate_limit_exceeded"
        /\ chat_requests' % 3 # 0)
       => /\ resp'.status = 200
          /\ resp'.body = [response |-> "Simulated response"]]_vars

AllAnswered == \A t \in Workers : threads[t].pc = "done"

StatusOf(t) == threads[t].out.resp.status

\* The workers whose request entered create_model with the id.
Creators(id) ==
    { t \in Workers :
        /\ threads[t].req.op = "create_model"
        /\ threads[t].req.body.id = id
        /\ threads[t].req.body.provider \in {"openai", "anthropic", "meta", "litellm"}
        /\ app = "mp02" => AdminKeyMP02(threads[t].req) }

\* The workers whose request entered delete_model with the id.
Deleters(id) ==
    { t \in Workers :
        /\ threads[t].req.op = "delete_model"
        /\ threads[t].req.model_id = id
        /\ app = "mp02" => AdminKeyMP02(threads[t].req) }

\* C22: in both mini projects, when two or more POST /models requests for the
\* same id, which the registry did not hold, have run together and all are
\* answered, exactly one was answered 201, every other 400, and the registry
\* holds the descriptor of the request answered 201.
C22_OneCreateWins ==
    (app \in {"mp01", "mp02"} /\ AllAnswered
     /\ Cardinality(Creators("gpt-99")) >= 2 /\ Deleters("gpt-99") = {})
    => \E w \in Creators("gpt-99") :
          /\ StatusOf(w) = 201
          /\ \A t \in Creators("gpt-99") \ {w} : StatusOf(t) = 400
          /\ Registered("gpt-99") /\ Entry("gpt-99") = threads[w].req.body

\* C23: in both mini projects, when DELETE /models/{id} requests for the same
\* registered id have run together and all are answered, exactly one was
\* answered 204 and every other 404; none was answered 500.
C23_OneDeleteWins ==
    (app \in {"mp01", "mp02"} /\ AllAnswered
     /\ Cardinality(Deleters("gpt-4")) >= 2 /\ Creators("gpt-4") = {})
    => /\ \E w \in Deleters("gpt-4") :
             /\ StatusOf(w) = 204
             /\ \A t \in Deleters("gpt-4") \ {w} : StatusOf(t) = 404
       /\ \A t \in Workers : StatusOf(t) # 500

\* The tokens of the accepted (200) chat requests of the user with key k.
RECURSIVE TokensCharged(_, _)
TokensCharged(k, ws) ==
    IF ws = {} THEN 0
    ELSE LET t == CHOOSE x \in ws : TRUE
             r == threads[t].req
             mine == r.op = "chat" /\ r.x_api_key = Some(k) /\ StatusOf(t) = 200
         IN  (IF mine THEN WordCount(Val(r.prompt)) + 10 ELSE 0)
             + TokensCharged(k, ws \ {t})

\* C24: in 06_3, when the requests that ran together are all answered, every
\* user's tokens_used is the initial value plus, for each accepted POST /chat of
\* that user, the number of words of its prompt plus 10.
C24_NoLostUpdate ==
    (app = "06_3" /\ AllAnswered)
    => /\ USERS["key-123"].tokens_used = 250 + TokensCharged("key-123", Workers)
       /\ USERS["key-456"].tokens_used = 1500 + TokensCharged("key-456", Workers)

\* Worker t was given a request of the user with key k in the step just taken.
AcceptedNow(t, k, op) ==
    /\ threads[t].pc = "idle" /\ threads'[t].pc # "idle"
    /\ threads'[t].req.op = op /\ threads'[t].req.x_api_key = Some(k)

\* C25: in 06_3 every user's tokens_used is non-negative and never decreases;
\* a user with tokens_used >= token_limit stays so; every POST /chat such a
\* user sends from then on is answered 403 and changes no counter, and a
\* GET /profile of that user is answered 200.
C25_TokensMonotoneAbsorbing ==
    [][app = "06_3"
       => \A k \in {"key-123", "key-456"} :
             /\ USERS'[k].tokens_used >= 0
             /\ USERS'[k].tokens_used >= USERS[k].tokens_used
             /\ USERS[k].tokens_used >= USERS[k].token_limit
                  => /\ USERS'[k].tokens_used >= USERS'[k].token_limit
                     /\ \A t \in Workers :
                           /\ AcceptedNow(t, k, "chat")
                                => /\ threads'[t].pc = "done"
                                   /\ threads'[t].out.resp.status = 403
                                   /\ USERS' = USERS
                           /\ (threads[t].pc = "get_profile: return"
                               /\ threads[t].req.x_api_key = Some(k)
                               /\ threads'[t].pc = "done")
                                => threads'[t].out.resp.status = 200]_vars

\* ---- mini_project_02: POST /chat/completions (C27, C28, C29)

\* The request served last is a POST /chat/completions.
ChatCompletion == req.op = "create_chat_completion"

\* Its body passes the field validation of ChatRequest: max_tokens is absent,
\* null or an integer in (1, 4096); in mini_project_02 every role is one of
\* the pattern; mini_project_01 requires the model.
BodyPasses(r) ==
    /\ r.body.max_tokens.tag = "int"
          => r.body.max_tokens.v > 1 /\ r.body.max_tokens.v < 4096
    /\ app = "mp02" => \A i \in DOMAIN r.body.messages :
                           r.body.messages[i].role \in {"user", "assistant", "system"}
    /\ app = "mp01" => r.body.model # None

\* The model the request is for: the named one, else the default gpt-4.
ModelFor(r) == IF r.body.model = None THEN "gpt-4" ELSE Val(r.body.model)

\* The request asks for more than 1000 max_tokens.
AboveFreeBound(r) == r.body.max_tokens.tag = "int" /\ r.body.max_tokens.v > 1000

\* C27: in mini_project_02 POST /chat/completions, the first failing check in
\* the order credential, model existence, tier bound determines the response:
\* a presented key that is not in USERS yields 401 whatever the body and the
\* model; with a valid key and a body that passes field validation an
\* unregistered model yields 404, also for a free-tier user who asks for more
\* than 1000 max_tokens; 403 is returned only when the key is valid and the
\* model is registered.
C27_FirstFailingCheck ==
    (app = "mp02" /\ ChatCompletion)
    => /\ (KeyOf(req) # None /\ ~ValidKeyMP02(req)) => resp.status = 401
       /\ (ValidKeyMP02(req) /\ BodyPasses(req) /\ ~Registered(ModelFor(req)))
            => /\ resp.status = 404
               /\ resp.detail = "Model " \o ModelFor(req) \o " not found"
       /\ resp.status = 403
            => ValidKeyMP02(req) /\ Registered(ModelFor(req))

\* A free-tier user asked an unregistered model for more than 1000 max_tokens
\* and was answered 404.
C27_Witness ==
    /\ app = "mp02" /\ ChatCompletion /\ KeyOf(req) = Some("key-123")
    /\ BodyPasses(req) /\ AboveFreeBound(req)
    /\ req.body.model = Some("gpt-99") /\ ~Registered("gpt-99")
    /\ resp.status = 404

\* C28: in mini_project_02 an authenticated POST /chat/completions (whose body
\* passes field validation) that omits the model is answered 201 only by the
\* default model gpt-4 and only while gpt-4 is registered; from the admin's
\* deletion of gpt-4 until a model with id gpt-4 is created again every such
\* request is answered 404; a request naming another registered model is never
\* answered 404 and, when it succeeds, is served by the model it names.
C28_DefaultModelWhileRegistered ==
    [][(ServedNow /\ app = "mp02" /\ ChatCompletion' /\ ValidKeyMP02(req')
        /\ BodyPasses(req'))
       => /\ (req'.body.model = None /\ resp'.status = 201)
               => resp'.body.model = "gpt-4" /\ Registered("gpt-4")
          /\ (req'.body.model = None /\ "gpt-4" \in deleted)
               => /\ resp'.status = 404
                  /\ resp'.detail = "Model gpt-4 not found"
          /\ (req'.body.model = None /\ "gpt-4" \notin deleted)
               => resp'.status # 404
          /\ (req'.body.model # None /\ ModelFor(req') # "gpt-4"
              /\ Registered(ModelFor(req')))
               => /\ resp'.status # 404
                  /\ resp'.status = 201 => resp'.body.model = ModelFor(req')]_vars

\* After gpt-4 was deleted and gpt-99 created, a request without model was
\* answered 404.
C28_Witness ==
    /\ app = "mp02" /\ ChatCompletion /\ ValidKeyMP02(req) /\ BodyPasses(req)
    /\ req.body.model = None /\ "gpt-4" \in deleted /\ Registered("gpt-99")
    /\ resp.status = 404 /\ resp.detail = "Model gpt-4 not found"

\* C29: in both mini projects every POST /chat/completions whose body passes
\* field validation (an empty messages list and a null max_tokens included),
\* whose credential is valid where one is required and whose model is
\* registered is answered 201, or 403 for a free-tier user above the bound;
\* it is never answered 500.
C29_NeverUnexpectedFailure ==
    (app \in {"mp01", "mp02"} /\ ChatCompletion /\ BodyPasses(req)
     /\ (app = "mp02" => ValidKeyMP02(req))
     /\ Registered(ModelFor(req)))
    => /\ resp.status \in {201, 403}
       /\ resp.status = 403
            => app = "mp02" /\ TierOf(req) = "free" /\ AboveFreeBound(req)

====
